---- MODULE Spec2Model ----
(***************************************************************************)
(* A model of ultra_deep_mapsite.py: the URL classifier, the disk store    *)
(* (mapsite.json behind a thread lock) and the four-phase discovery run.   *)
(*                                                                         *)
(* Strings.  A Python string is modelled as a sequence of lexemes: the     *)
(* scheme lexemes "http://", "https://", "tel:", "mailto:", the delimiters *)
(* "/", "?", "#", "-", ".", "[", "]" and words.  Concatenation is \o, a    *)
(* literal regular expression is a contiguous run of lexemes, "^" anchors  *)
(* it at the first lexeme and "$" at the last.  All lexemes are lower      *)
(* case, so re.IGNORECASE changes nothing.                                 *)
(***************************************************************************)
EXTENDS Naturals, Integers, Sequences, FiniteSets, TLC

(***************************************************************************)
(* Bounds of the model.                                                    *)
(***************************************************************************)
\* classify_url inputs: pieces of path and query after the head.
MaxSegs == 2
\* File operations that fail in one behaviour.
MaxFaults == 2
\* Calls of the sequential store client.
MaxCalls == 3
\* Links on the seed page, and on any other fetched page.
MaxLinks == 2
MaxPageLinks == 1
\* Urls one interactive session surfaces.
MaxInteractive == 1
\* Threads calling the store, and the calls they begin in total.
NumThreads == 2
MaxStoreCalls == 3
\* Urls in the list a client passes to analyze_patterns, and its calls.
MaxExamples == 3
MaxAnalyzeCalls == 2

(***************************************************************************)
(* String helpers (str.startswith, re.search of a literal, str.endswith).  *)
(***************************************************************************)
StartsWith(s, p) ==
    /\ Len(s) >= Len(p)
    /\ SubSeq(s, 1, Len(p)) = p

EndsWith(s, p) ==
    /\ Len(s) >= Len(p)
    /\ SubSeq(s, Len(s) - Len(p) + 1, Len(s)) = p

Search(s, p) ==
    \E i \in 1..(Len(s) + 1 - Len(p)) : SubSeq(s, i, i + Len(p) - 1) = p

\* The lexemes whose text begins with "http".
HttpLexemes == {"http://", "https://"}

\* url.startswith('http')
startswith_http(url) == Len(url) > 0 /\ url[1] \in HttpLexemes

\* urlparse(url).netloc for a url that starts with a scheme lexeme: the
\* lexemes after the scheme up to the first "/", "?" or "#".
RECURSIVE UpToDelimiter(_)
UpToDelimiter(s) ==
    IF s = <<>> \/ Head(s) \in {"/", "?", "#"}
    THEN <<>>
    ELSE <<Head(s)>> \o UpToDelimiter(Tail(s))

netloc(url) == IF startswith_http(url) THEN UpToDelimiter(Tail(url)) ELSE <<>>

\* urlparse(url) raises ValueError ("Invalid IPv6 URL") when the netloc holds
\* one of "[" and "]" without the other.
urlparse_raises(url) ==
    LET host == netloc(url)
    IN  (\E i \in 1..Len(host) : host[i] = "[") # (\E i \in 1..Len(host) : host[i] = "]")

\* What stands for the result of a classify_url call that raised: there is
\* no category and no priority.
ValueErrorRaised == [category |-> "ValueError", priority |-> -1]

(***************************************************************************)
(* Settings.base_url (the BASE_URL environment variable) and the           *)
(* classifier's base_domain derived from it in UltraDeepMapsite.__init__.  *)
(***************************************************************************)
base_url == <<"https://", "site.com">>

base_domain == UpToDelimiter(Tail(base_url))

(***************************************************************************)
(* ContentClassifier: the four rule tables.                                *)
(***************************************************************************)
\* r"/x(/.*)?$" for each x below, in the order of the source.
high_priority_patterns ==
    << <<"/", "ead">>,
       <<"/", "conteudos">>,
       <<"/", "educacao-a-distancia">>,
       <<"/", "servicos">>,
       <<"/", "eventos">>,
       <<"/", "pwa", "/", "produtos">>,
       <<"/", "podcast">>,
       <<"/", "receitas">>,
       <<"/", "calculadoras">>,
       <<"/", "acervo">> >>

medium_priority_patterns ==
    << <<"/", "sobre-nos">>,
       <<"/", "perguntas-frequentes">>,
       <<"/", "cadastro">>,
       <<"/", "meus-cursos">>,
       <<"/", "meus-certificados">> >>

\* The extensions of r"\.(pdf|...)$", and the directory patterns.
file_extensions ==
    {"pdf", "doc", "docx", "ppt", "pptx", "xls", "xlsx",
     "zip", "rar", "tar", "gz", "mp4", "mp3", "avi", "mov", "wmv"}

file_directories ==
    { <<"/", "download", "/">>, <<"/", "materials", "/">>,
      <<"/", "recursos", "/">>, <<"/", "arquivos", "/">> }

\* Each exclude pattern: anchored at the start ("^") or not, and its
\* alternatives.
exclude_patterns ==
    << [anchored |-> TRUE,  alts |-> { <<"tel:">> }],
       [anchored |-> TRUE,  alts |-> { <<"mailto:">> }],
       [anchored |-> TRUE,  alts |-> { <<"#">> }],
       [anchored |-> FALSE, alts |-> { <<"/", "user", "/", "logout">> }],
       [anchored |-> FALSE, alts |-> { <<"utm_source=">> }],
       [anchored |-> FALSE, alts |-> { <<"facebook.com">>, <<"twitter.com">>,
                                       <<"instagram.com">>, <<"linkedin.com">> }] >>

\* re.search(pattern, url) for one exclude pattern.
matches_exclude(pat, url) ==
    \E a \in pat.alts : IF pat.anchored THEN StartsWith(url, a) ELSE Search(url, a)

\* re.search(r"/x(/.*)?$", url): the literal, then the end of the string or
\* a "/" (after which ".*" takes the rest).
matches_high(lit, url) ==
    \E i \in 1..(Len(url) + 1 - Len(lit)) :
        /\ SubSeq(url, i, i + Len(lit) - 1) = lit
        /\ \/ i + Len(lit) - 1 = Len(url)
           \/ url[i + Len(lit)] = "/"

matches_file_download(url) ==
    \/ \E e \in file_extensions : EndsWith(url, <<".", e>>)
    \/ \E d \in file_directories : Search(url, d)

matches_any_exclude(url) ==
    \E k \in 1..Len(exclude_patterns) : matches_exclude(exclude_patterns[k], url)

matches_any_high(url) ==
    \E k \in 1..Len(high_priority_patterns) : matches_high(high_priority_patterns[k], url)

matches_any_medium(url) ==
    \E k \in 1..Len(medium_priority_patterns) : Search(url, medium_priority_patterns[k])

\* _extract_category: decided by the text of the pattern, not of the url.
extract_category(pattern) ==
    IF Search(pattern, <<"/", "ead">>) THEN "education"
    ELSE IF Search(pattern, <<"/", "conteudos">>) THEN "content"
    ELSE IF Search(pattern, <<"/", "servicos">>) THEN "services"
    ELSE IF Search(pattern, <<"/", "eventos">>) THEN "events"
    ELSE IF Search(pattern, <<"/", "pwa", "/", "produtos">>) THEN "products"
    ELSE IF Search(pattern, <<"/", "podcast">>) THEN "podcast"
    ELSE IF Search(pattern, <<"/", "receitas">>) THEN "recipes"
    ELSE IF Search(pattern, <<"/", "calculadoras">>) THEN "calculators"
    ELSE IF Search(pattern, <<"/", "acervo">>) THEN "archive"
    ELSE "high_priority"

\* The first high-priority pattern (in list order) that matches.
first_high(url) ==
    CHOOSE k \in 1..Len(high_priority_patterns) :
        /\ matches_high(high_priority_patterns[k], url)
        /\ \A j \in 1..(k - 1) : ~matches_high(high_priority_patterns[j], url)

classify_url_high_first(url) ==
    IF ~startswith_http(url) THEN [category |-> "invalid", priority |-> 0]
    ELSE IF urlparse_raises(url) THEN ValueErrorRaised
    ELSE IF ~Search(netloc(url), base_domain) THEN [category |-> "external", priority |-> 0]
    ELSE IF matches_file_download(url) THEN [category |-> "file_downloads", priority |-> 1]
    ELSE IF matches_any_high(url)
         THEN [category |-> extract_category(high_priority_patterns[first_high(url)]),
               priority |-> 1]
    ELSE IF matches_any_exclude(url) THEN [category |-> "excluded", priority |-> 0]
    ELSE IF matches_any_medium(url) THEN [category |-> "medium_priority", priority |-> 1]
    ELSE [category |-> "general", priority |-> 1]

\* classify_url with the medium-priority patterns tried before the
\* file-download and the high-priority patterns.
classify_url_medium_first(url) ==
    IF ~startswith_http(url) THEN [category |-> "invalid", priority |-> 0]
    ELSE IF urlparse_raises(url) THEN ValueErrorRaised
    ELSE IF ~Search(netloc(url), base_domain) THEN [category |-> "external", priority |-> 0]
    ELSE IF matches_any_exclude(url) THEN [category |-> "excluded", priority |-> 0]
    ELSE IF matches_any_medium(url) THEN [category |-> "medium_priority", priority |-> 1]
    ELSE IF matches_file_download(url) THEN [category |-> "file_downloads", priority |-> 1]
    ELSE IF matches_any_high(url)
         THEN [category |-> extract_category(high_priority_patterns[first_high(url)]),
               priority |-> 1]
    ELSE [category |-> "general", priority |-> 1]

\* classify_url: (category, priority); the rules in the order of the source.
\* Line 83 is in no try block, so a ValueError of urlparse leaves the call.
classify_url(url) ==
    IF ~startswith_http(url) THEN [category |-> "invalid", priority |-> 0]
    ELSE IF urlparse_raises(url) THEN ValueErrorRaised
    ELSE IF ~Search(netloc(url), base_domain) THEN [category |-> "external", priority |-> 0]
    ELSE IF matches_any_exclude(url) THEN [category |-> "excluded", priority |-> 0]
    ELSE IF matches_file_download(url) THEN [category |-> "file_downloads", priority |-> 1]
    ELSE IF matches_any_high(url)
         THEN [category |-> extract_category(high_priority_patterns[first_high(url)]),
               priority |-> 1]
    ELSE IF matches_any_medium(url) THEN [category |-> "medium_priority", priority |-> 1]
    ELSE [category |-> "general", priority |-> 1]

(***************************************************************************)
(* DiskStorage: mapsite.json and the operations on it.                     *)
(*                                                                         *)
(* A record of discovered_urls is [url, category, phase, depth]; the       *)
(* discovered_at and last_updated time stamps are left out (no claim reads *)
(* them).  The file is either parseable JSON holding the mapsite data, or  *)
(* not parseable: open(file, 'w') truncates it, and until json.dump has    *)
(* written everything and the file is closed, json.load of it raises.      *)
(***************************************************************************)
EmptyMapsite == [discovered_urls |-> <<>>, total_count |-> 0]

TruncatedFile == [parseable |-> FALSE, discovered_urls |-> <<>>, total_count |-> 0]

FileOf(data) ==
    [parseable |-> TRUE,
     discovered_urls |-> data.discovered_urls,
     total_count |-> data.total_count]

\* _load_mapsite: the parsed file, or the empty default when open/json.load
\* raises (readOk = FALSE: the read itself fails).
load_mapsite(file, readOk) ==
    IF readOk /\ file.parseable
    THEN [discovered_urls |-> file.discovered_urls, total_count |-> file.total_count]
    ELSE EmptyMapsite

\* {item['url'] for item in mapsite_data['discovered_urls']}
existing_urls(data) ==
    { data.discovered_urls[i].url : i \in 1..Len(data.discovered_urls) }

with_new_entry_stale_count(data, url, category, phase, depth) ==
    [discovered_urls |-> Append(data.discovered_urls,
                    [url |-> url, category |-> category, phase |-> phase, depth |-> depth]),
     total_count |-> data.total_count]

\* with_new_entry writing the new entry alone instead of appending it.
with_new_entry_alone(data, url, category, phase, depth) ==
    [discovered_urls |-> <<[url |-> url, category |-> category, phase |-> phase, depth |-> depth]>>,
     total_count |-> 1]

\* Lines 505-515: append the entry and recompute total_count.
with_new_entry(data, url, category, phase, depth) ==
    LET l == Append(data.discovered_urls,
                    [url |-> url, category |-> category, phase |-> phase, depth |-> depth])
    IN  [discovered_urls |-> l, total_count |-> Len(l)]

\* What the backing file system does during one call.
IoOutcomes == {"ok", "read_error", "open_error", "write_error"}

\* _save_mapsite_update: the file after the call, and whether it raised.
\*   open_error:  open(file, 'w') raises, the file is untouched;
\*   write_error: the file was truncated and the dump or the close raises.
save_mapsite_update(file, data, io) ==
    CASE io = "open_error"  -> [file |-> file, raised |-> TRUE]
      [] io = "write_error" -> [file |-> TruncatedFile, raised |-> TRUE]
      [] OTHER              -> [file |-> FileOf(data), raised |-> FALSE]

add_url_no_check(file, url, category, phase, depth, io) ==
    LET data  == load_mapsite(file, io # "read_error")
        saved == save_mapsite_update(file,
                     with_new_entry(data, url, category, phase, depth), io)
    IN  [file |-> saved.file, ret |-> ~saved.raised]

\* add_url_to_mapsite as one call (the lock is held throughout): the file
\* after it and its return value.
add_url_to_mapsite(file, url, category, phase, depth, io) ==
    LET data == load_mapsite(file, io # "read_error")
    IN  IF url \notin existing_urls(data)
        THEN LET saved == save_mapsite_update(file,
                              with_new_entry(data, url, category, phase, depth), io)
             IN  [file |-> saved.file, ret |-> ~saved.raised]
        ELSE [file |-> file, ret |-> FALSE]

\* is_url_already_discovered
is_url_already_discovered(file, url, io) ==
    url \in existing_urls(load_mapsite(file, io # "read_error"))

\* The counting loops of get_current_stats: a dict from each key present to
\* the number of records carrying it.
count_by(records, field) ==
    [k \in { records[i][field] : i \in 1..Len(records) } |->
        Cardinality({ i \in 1..Len(records) : records[i][field] = k })]

stats_of(data) ==
    [total_urls |-> data.total_count,
     categories |-> count_by(data.discovered_urls, "category"),
     phases     |-> count_by(data.discovered_urls, "phase")]

\* get_current_stats (it takes no lock).
get_current_stats(file, io) == stats_of(load_mapsite(file, io # "read_error"))

(***************************************************************************)
(* URLPatternAnalyzer.  A number in a url is a run of digit lexemes.       *)
(***************************************************************************)
\* The element of a singleton: Only({ e(x) : x \in {v} }) is e(v) with v
\* worked out once.
Only(S) == CHOOSE x \in S : TRUE

Digits == <<"0", "1", "2", "3", "4", "5", "6", "7", "8", "9">>

IsDigit(x) == \E i \in 1..Len(Digits) : Digits[i] = x

DigitValue(x) == (CHOOSE i \in 1..Len(Digits) : Digits[i] = x) - 1

\* int(s) of a run of digits.
RECURSIVE to_int(_)
to_int(ds) ==
    IF ds = <<>> THEN 0
    ELSE to_int(SubSeq(ds, 1, Len(ds) - 1)) * 10 + DigitValue(ds[Len(ds)])

\* str(n) of a natural number.
RECURSIVE to_str(_)
to_str(n) ==
    IF n < 10 THEN <<Digits[n + 1]>>
    ELSE to_str(n \div 10) \o <<Digits[(n % 10) + 1]>>

\* (\d+) matched at position i: the longest run of digits starting there.
RECURSIVE DigitRun(_, _)
DigitRun(s, i) ==
    IF i <= Len(s) /\ IsDigit(s[i]) THEN <<s[i]>> \o DigitRun(s, i + 1) ELSE <<>>

RECURSIVE UpToQuery(_)
UpToQuery(s) ==
    IF s = <<>> \/ Head(s) \in {"?", "#"} THEN <<>>
    ELSE <<Head(s)>> \o UpToQuery(Tail(s))

\* urlparse(url).path
url_path(url) ==
    IF startswith_http(url)
    THEN UpToQuery(SubSeq(url, Len(netloc(url)) + 2, Len(url)))
    ELSE IF url # <<>> /\ Head(url) \in {"tel:", "mailto:"}
         THEN UpToQuery(Tail(url))
    ELSE UpToQuery(url)

\* [^/]+ matches s[a..b]
NoSlash(s, a, b) == a <= b /\ \A x \in a..b : s[x] # "/"

\* re.search of '/<name>/[^/]+/[^/]+-(\d+)'
search_category_item(p, name) ==
    \E i \in 1..(Len(p) - 2) :
        /\ p[i] = "/" /\ p[i + 1] = name /\ p[i + 2] = "/"
        /\ \E j \in (i + 4)..Len(p) :
            /\ NoSlash(p, i + 3, j - 1)
            /\ p[j] = "/"
            /\ \E m \in (j + 2)..(Len(p) - 1) :
                /\ NoSlash(p, j + 1, m - 1)
                /\ p[m] = "-" /\ IsDigit(p[m + 1])

\* re.search of '/<name>/[^/]+-(\d+)'
search_item(p, name) ==
    \E i \in 1..(Len(p) - 2) :
        /\ p[i] = "/" /\ p[i + 1] = name /\ p[i + 2] = "/"
        /\ \E m \in (i + 4)..(Len(p) - 1) :
            /\ NoSlash(p, i + 3, m - 1)
            /\ p[m] = "-" /\ IsDigit(p[m + 1])

\* re.search of '/node/(\d+)'
search_node(p) ==
    \E i \in 1..(Len(p) - 3) :
        /\ p[i] = "/" /\ p[i + 1] = "node" /\ p[i + 2] = "/" /\ IsDigit(p[i + 3])

\* _extract_pattern: the template of the first regex that matches the path,
\* or "" for None.
extract_pattern(url) ==
    Only({ IF search_category_item(path, "ead") THEN "/ead/category/item-{id}"
           ELSE IF search_category_item(path, "conteudos") THEN "/conteudos/category/item-{id}"
           ELSE IF search_node(path) THEN "/node/{id}"
           ELSE IF search_item(path, "produtos") THEN "/produtos/item-{id}"
           ELSE ""
           : path \in {url_path(url)} })

\* The positions where '-(\d+)' matches in the url.
DashNumberAt(url) == { m \in 1..Len(url) : url[m] = "-" /\ m + 1 <= Len(url) /\ IsDigit(url[m + 1]) }

SetMin(S) == CHOOSE x \in S : \A y \in S : x <= y

SetMax(S) == CHOOSE x \in S : \A y \in S : x >= y

\* int(match.group(1)) of the first match of '-(\d+)'.
first_id(url) == to_int(DigitRun(url, SetMin(DashNumberAt(url)) + 1))

\* Lines 389-392: the id of each example that has one.
example_ids(examples) ==
    Only({ [k \in 1..Len(matched) |-> first_id(matched[k])]
           : matched \in {SelectSeq(examples, LAMBDA url : DashNumberAt(url) # {})} })

\* examples[0].rsplit('-', 1)[0]
rsplit_dash(url) ==
    LET at == { m \in 1..Len(url) : url[m] = "-" }
    IN  IF at = {} THEN url ELSE SubSeq(url, 1, SetMax(at) - 1)

MinExamples == 3
IdsBelow == 10
IdsAbove == 50

\* Lines 396-400: the ids to suggest, in ascending order.
missing_ids(ids) ==
    LET seen     == { ids[k] : k \in 1..Len(ids) }
        min_id   == SetMin(seen)
        start_id == IF min_id - IdsBelow > 1 THEN min_id - IdsBelow ELSE 1
        end_id   == min_id + IdsAbove
        range    == [k \in 1..(end_id - start_id) |-> start_id + k - 1]
    IN  SelectSeq(range, LAMBDA i : i \notin seen)

\* _generate_pattern_variations
generate_pattern_variations(examples) ==
    Only({ IF Len(ids) >= MinExamples
           THEN Only({ [k \in 1..Len(missing) |->
                          rsplit_dash(examples[1]) \o <<"-">> \o to_str(missing[k])]
                       : missing \in {missing_ids(ids)} })
           ELSE <<>>
           : ids \in {example_ids(examples)} })

\* Lines 350-353: discovered_patterns[pattern].append(url) for each url.  The
\* dict is the sequence of its items in insertion order: the patterns it had
\* keep their places and get the urls that match them appended in order, and
\* the new patterns follow in the order of their first url.
group_by_pattern(dp, urls) ==
    LET known_patterns == { dp[k].pattern : k \in 1..Len(dp) }
        positions      == [k \in 1..Len(urls) |-> k]
        first_of_new   == SelectSeq(positions, LAMBDA k :
                              /\ extract_pattern(urls[k]) # ""
                              /\ extract_pattern(urls[k]) \notin known_patterns
                              /\ \A j \in 1..(k - 1) :
                                    extract_pattern(urls[j]) # extract_pattern(urls[k]))
        matching(p)    == SelectSeq(urls, LAMBDA url : extract_pattern(url) = p)
    IN  [k \in 1..Len(dp) |->
            [pattern |-> dp[k].pattern, urls |-> dp[k].urls \o matching(dp[k].pattern)]]
        \o [k \in 1..Len(first_of_new) |->
            [pattern |-> extract_pattern(urls[first_of_new[k]]),
             urls    |-> matching(extract_pattern(urls[first_of_new[k]]))]]

\* Lines 356-360: the patterns with enough examples and some variation.
patterns_of(dp) ==
    LET suggested == [k \in 1..Len(dp) |->
                        [pattern     |-> dp[k].pattern,
                         suggestions |-> IF Len(dp[k].urls) >= MinExamples
                                         THEN generate_pattern_variations(dp[k].urls)
                                         ELSE <<>>]]
    IN  SelectSeq(suggested, LAMBDA item : item.suggestions # <<>>)

\* analyze_patterns: the analyzer's discovered_patterns after the call and
\* the dict it returns.
analyze_patterns(dp, urls) ==
    Only({ [discovered_patterns |-> grouped, patterns |-> patterns_of(grouped)]
           : grouped \in {group_by_pattern(dp, urls)} })

(***************************************************************************)
(* State.                                                                  *)
(*   c_url, c_result     one classify_url call: its input and its result   *)
(*   mapsite_file        data/mapsite.json                                 *)
(*   io_faults           history: the file operations that were made to    *)
(*                       fail                                              *)
(*   sq_n, sq_last       a sequential client of the store: the number of   *)
(*                       calls made and the last two of them               *)
(*   mapsite_lock        DiskStorage.mapsite_lock: 0, or the thread inside *)
(*   th                  each thread's call in progress: where it is, the  *)
(*                       operation and its arguments, its local            *)
(*                       mapsite_data and its return value                 *)
(*   st_n                the number of calls the threads have begun        *)
(*   committed           history: the records of the last completed write  *)
(*   add_true, add_false history: per url, the add_url_to_mapsite calls    *)
(*                       that returned True / False                        *)
(*   pc                  where run_ultra_deep_discovery is                 *)
(*   crawl_queue, queued_urls, failed_urls   the fields of UltraDeepMapsite*)
(*   cur                 the queue entry popped by phase 2                 *)
(*   ctx, links, processed_urls   _process_complete_response: its          *)
(*                       arguments (and where it returns to), the links    *)
(*                       still to process, and its result so far           *)
(*   truly_new, wi       the filtered list of _crawl_single_url and the    *)
(*                       index of the loop in progress                     *)
(*   targets, interactive_urls   phase 3: the targets still to visit and   *)
(*                       the urls of the current one still to handle       *)
(*   discovered_patterns the field of URLPatternAnalyzer                   *)
(*   candidates, phase4_urls   phase 4: the suggestions still to test and  *)
(*                       the valid ones so far                             *)
(*   seed_links, fetched, artifacts, last_enq, last_add, n_pops   history: *)
(*                       the links of the seed page, the urls passed to    *)
(*                       scrape_url, the contents saved, the last append   *)
(*                       to the queue and the last add_url_to_mapsite call *)
(*                       with what held when they were made, and the       *)
(*                       number of popleft calls                           *)
(*   run_result, total_reported   what the run returned and the total it   *)
(*                       printed                                           *)
(*   last_text           history: the url of the last fetch of phase 4 and *)
(*                       the length of the stripped markdown it gave (0    *)
(*                       when it gave none or raised)                      *)
(*   popped              history: the entries dequeued, in order           *)
(*   fresh_links         history: the links of the page phase 2 is         *)
(*                       processing that were neither stored nor queued    *)
(*                       when it was fetched                               *)
(*   failed_phases       history: the phases in which a fetch (or an       *)
(*                       interactive session) raised                       *)
(*   an_urls, an_dp, an_out   a client of URLPatternAnalyzer: the list it  *)
(*                       passes, the analyzer's discovered_patterns and    *)
(*                       the dicts its analyze_patterns calls returned     *)
(***************************************************************************)
VARIABLES c_url, c_result, mapsite_file, io_faults, sq_n, sq_last,
          mapsite_lock, th, st_n, committed, add_true, add_false,
          pc, crawl_queue, queued_urls, failed_urls, cur, ctx, links,
          processed_urls, truly_new, wi,
          targets, interactive_urls, discovered_patterns, candidates, phase4_urls,
          seed_links, fetched, artifacts, last_enq, last_add, n_pops,
          run_result, total_reported,
          an_urls, an_dp, an_out, failed_phases, fresh_links, popped, last_text

classify_vars == <<c_url, c_result>>
file_vars == <<mapsite_file, io_faults>>
seq_vars == <<sq_n, sq_last>>
thread_vars == <<mapsite_lock, th, st_n, committed, add_true, add_false>>
late_vars == <<targets, interactive_urls, discovered_patterns, candidates, phase4_urls>>
crawl_vars == <<pc, crawl_queue, queued_urls, failed_urls, cur, ctx, links,
                processed_urls, truly_new, wi, late_vars,
                seed_links, fetched, artifacts, last_enq, last_add, n_pops,
                run_result, total_reported, failed_phases, fresh_links,
                popped, last_text>>
analyze_vars == <<an_urls, an_dp, an_out>>
vars == <<classify_vars, file_vars, seq_vars, thread_vars, crawl_vars, analyze_vars>>

NoResult == [category |-> "none", priority |-> 0]

\* DiskStorage.__init__ in a fresh data directory: the file is created
\* holding no records.
InitFile ==
    /\ mapsite_file = FileOf(EmptyMapsite)
    /\ io_faults = 0

io_failed == io_faults > 0

\* The file operations of one step either all work, or (while fewer than
\* MaxFaults have failed) one of them fails.
OkOrNot == IF io_faults < MaxFaults THEN BOOLEAN ELSE {TRUE}

IoChoices(outcomes) == IF io_faults < MaxFaults THEN outcomes ELSE {"ok"}

Faults(failed) == io_faults + (IF failed THEN 1 ELSE 0)

IdleClassify == c_url = <<>> /\ c_result = NoResult
IdleSeq == sq_n = 0 /\ sq_last = <<>>
IdleAnalyze == an_urls = <<>> /\ an_dp = <<>> /\ an_out = <<>>

NoEntry == [url |-> <<>>, depth |-> 0, category |-> ""]

NoCtx ==
    [source |-> <<>>, phase |-> "", depth |-> 0, category |-> "", after |-> "",
     saved |-> FALSE, save_failed |-> "none"]

NoEnq == [url |-> <<>>, depth |-> 0, phase |-> "", priority |-> 0, known |-> FALSE, queued |-> FALSE]

NoAdd == [url |-> <<>>, phase |-> "", depth |-> 0, ret |-> FALSE, known |-> FALSE]

NoText == [url |-> <<>>, markdown |-> 0]

\* The phases, by the names the records carry.
Phases == {"phase1_foundation", "phase2_recursive", "phase3_interactive", "phase4_patterns"}

NoFailures == {}

\* A fetch (or an interactive session) of that phase raised.
Failed(phase) == failed_phases \cup {phase}

\* UltraDeepMapsite.__init__: empty queue and sets.
CrawlerAt(label) ==
    /\ pc = label
    /\ crawl_queue = <<>>
    /\ queued_urls = {}
    /\ failed_urls = {}
    /\ cur = NoEntry
    /\ ctx = NoCtx
    /\ links = <<>>
    /\ processed_urls = <<>>
    /\ truly_new = <<>>
    /\ wi = 1
    /\ targets = <<>>
    /\ interactive_urls = <<>>
    /\ discovered_patterns = <<>>
    /\ candidates = <<>>
    /\ phase4_urls = <<>>
    /\ seed_links = <<>>
    /\ fetched = <<>>
    /\ artifacts = <<>>
    /\ last_enq = NoEnq
    /\ last_add = NoAdd
    /\ n_pops = 0
    /\ run_result = "none"
    /\ total_reported = 0
    /\ failed_phases = NoFailures
    /\ fresh_links = {}
    /\ popped = <<>>
    /\ last_text = NoText

IdleCrawler == CrawlerAt("off")


StoreUrls ==
    { base_url \o <<"/", "a">>, base_url \o <<"/", "b">>, base_url \o <<"/", "ead">> }

\* The argument tuples a caller passes to add_url_to_mapsite.
AddArgs ==
    { [url |-> u, category |-> classify_url(u).category, phase |-> "phase1_foundation", depth |-> 1]
        : u \in StoreUrls } \cup
    { [url |-> u, category |-> "general", phase |-> "phase3_interactive", depth |-> 0]
        : u \in StoreUrls }

Threads == 1..NumThreads

NoArgs == [url |-> <<>>, category |-> "", phase |-> "", depth |-> 0]

IdleThread ==
    [pc |-> "idle", op |-> "none", args |-> NoArgs, data |-> EmptyMapsite,
     ret |-> FALSE, stats |-> stats_of(EmptyMapsite), lo |-> 0]

IdleThreads ==
    /\ mapsite_lock = 0
    /\ th = [t \in Threads |-> IdleThread]
    /\ st_n = 0
    /\ committed = <<>>
    /\ add_true = [u \in StoreUrls |-> 0]
    /\ add_false = [u \in StoreUrls |-> 0]

(***************************************************************************)
(* SpecClassify: classify_url applied to one url of a bounded set: a head  *)
(* (nothing, a scheme, or a scheme and a host) followed by at most MaxSegs *)
(* pieces of path and query.                                               *)
(***************************************************************************)
UrlHeads ==
    { <<>>, <<"tel:">>, <<"mailto:">>, <<"#">>,
      <<"https://", "site.com">>, <<"http://", "site.com">>,
      <<"https://", "www.", "site.com">>,
      <<"https://", "other.com">>, <<"https://", "facebook.com">>,
      <<"https://", "[", "site.com">> }

UrlPieces ==
    { high_priority_patterns[k] : k \in 1..Len(high_priority_patterns) } \cup
    { <<"/", "a">>, <<"/">>, <<"/", "user", "/", "logout">>,
      <<"?", "utm_source=", "x">>, <<"?", "ref=", "twitter.com">>,
      <<".", "pdf">>, <<"/", "download", "/">>,
      <<"/", "sobre-nos">>, <<"/", "cadastro">>, <<"/", "item", "-", "10">>,
      <<"/", "cadastro", ".", "pdf">> }

RECURSIVE Tails(_)
Tails(n) ==
    IF n = 0 THEN { <<>> }
    ELSE LET shorter == Tails(n - 1)
         IN  shorter \cup { t \o q : t \in shorter, q \in UrlPieces }

ClassifyInputs == { h \o t : h \in UrlHeads, t \in Tails(MaxSegs) }

InitClassify ==
    /\ c_url \in ClassifyInputs
    /\ c_result = NoResult
    /\ InitFile /\ IdleSeq /\ IdleThreads /\ IdleCrawler /\ IdleAnalyze

Classify ==
    /\ c_result = NoResult
    /\ c_result' = classify_url(c_url)
    /\ UNCHANGED <<c_url, file_vars, seq_vars, thread_vars, crawl_vars, analyze_vars>>

NextClassify == Classify

SpecClassify == InitClassify /\ [][NextClassify]_vars

(***************************************************************************)
(* SpecSeq: one caller making store calls one after the other.             *)
(***************************************************************************)
LastTwo(s) == IF Len(s) > 2 THEN SubSeq(s, Len(s) - 1, Len(s)) ELSE s

TotalNow(file) == get_current_stats(file, "ok").total_urls

SeqAdd ==
    /\ sq_n < MaxCalls
    /\ \E a \in AddArgs, io \in IoChoices(IoOutcomes) :
         LET r == add_url_to_mapsite(mapsite_file, a.url, a.category, a.phase, a.depth, io)
         IN  /\ mapsite_file' = r.file
             /\ io_faults' = Faults(io # "ok")
             /\ sq_last' = LastTwo(Append(sq_last,
                    [op |-> "add", args |-> a, io |-> io, ret |-> r.ret,
                     known_before |-> is_url_already_discovered(mapsite_file, a.url, "ok"),
                     total_before |-> TotalNow(mapsite_file),
                     total_after  |-> TotalNow(r.file)]))
    /\ sq_n' = sq_n + 1
    /\ UNCHANGED <<classify_vars, thread_vars, crawl_vars, analyze_vars>>

SeqIsKnown ==
    /\ sq_n < MaxCalls
    /\ \E u \in StoreUrls, io \in IoChoices({"ok", "read_error"}) :
         /\ io_faults' = Faults(io # "ok")
         /\ sq_last' = LastTwo(Append(sq_last,
                [op |-> "is_known", args |-> [url |-> u], io |-> io,
                 ret |-> is_url_already_discovered(mapsite_file, u, io),
                 known_before |-> is_url_already_discovered(mapsite_file, u, "ok"),
                 total_before |-> TotalNow(mapsite_file),
                 total_after  |-> TotalNow(mapsite_file)]))
    /\ sq_n' = sq_n + 1
    /\ UNCHANGED <<mapsite_file, classify_vars, thread_vars, crawl_vars, analyze_vars>>

InitSeq == InitFile /\ IdleSeq /\ IdleClassify /\ IdleThreads /\ IdleCrawler /\ IdleAnalyze

NextSeq == SeqAdd \/ SeqIsKnown

SpecSeq == InitSeq /\ [][NextSeq]_vars

(***************************************************************************)
(* SpecAnalyze: one URLPatternAnalyzer whose analyze_patterns is called    *)
(* up to MaxAnalyzeCalls times with the same list of at most MaxExamples   *)
(* distinct urls.                                                          *)
(***************************************************************************)
\* The urls the client has seen: three courses, three nodes, and three
\* products whose path holds two numbers.
EadItem(id) == base_url \o <<"/", "ead", "/", "curso", "/", "item", "-">> \o to_str(id)

NodePage(id) == base_url \o <<"/", "node", "/">> \o to_str(id)

LotItem(lot, id) ==
    base_url \o <<"/", "produtos", "/", "lote", "-">> \o to_str(lot)
             \o <<"/", "item", "-">> \o to_str(id)

AnalyzeUrls ==
    { EadItem(10), EadItem(12), EadItem(15),
      NodePage(3), NodePage(4), NodePage(5),
      LotItem(1, 5), LotItem(2, 5), LotItem(3, 5) }

\* The lists of at most n distinct elements of S.
DistinctLists(S, n) ==
    UNION { { l \in [1..k -> S] : \A a, b \in 1..k : a # b => l[a] # l[b] } : k \in 0..n }

InitAnalyze ==
    /\ an_urls \in DistinctLists(AnalyzeUrls, MaxExamples)
    /\ an_dp = <<>>
    /\ an_out = <<>>
    /\ InitFile /\ IdleClassify /\ IdleSeq /\ IdleThreads /\ IdleCrawler

\* patterns = self.pattern_analyzer.analyze_patterns(urls)
Analyze ==
    /\ Len(an_out) < MaxAnalyzeCalls
    /\ \E r \in {analyze_patterns(an_dp, an_urls)} :
         /\ an_dp' = r.discovered_patterns
         /\ an_out' = Append(an_out, r.patterns)
    /\ UNCHANGED <<an_urls, classify_vars, file_vars, seq_vars, thread_vars, crawl_vars>>

NextAnalyze == Analyze

SpecAnalyze == InitAnalyze /\ [][NextAnalyze]_vars

(***************************************************************************)
(* Claims about the pattern analyzer (SpecAnalyze).                        *)
(***************************************************************************)
\* The urls suggested by the k-th call, over all patterns.
SuggestedBy(k) ==
    UNION { { an_out[k][p].suggestions[x] : x \in 1..Len(an_out[k][p].suggestions) }
            : p \in 1..Len(an_out[k]) }

CourseExamples == { EadItem(10), EadItem(12), EadItem(15) }

\* C13 as stated: given exactly the three course urls with ids 10, 12 and
\* 15, the first analysis proposes one pattern, whose candidates are the
\* course urls with the ids 1 through 64 except 10, 12 and 15.
C13_Scenario ==
    ({ an_urls[k] : k \in 1..Len(an_urls) } = CourseExamples /\ Len(an_out) >= 1)
        => /\ Len(an_out[1]) = 1
           /\ SuggestedBy(1) = { EadItem(id) : id \in (1..64) \ {10, 12, 15} }

\* What the first analysis does propose for these inputs: the ids from
\* max(1, 10 - 10) = 1 up to 10 + 50 - 1 = 59 (this holds).
C13_UpToMinPlus ==
    ({ an_urls[k] : k \in 1..Len(an_urls) } = CourseExamples /\ Len(an_out) >= 1)
        => /\ Len(an_out[1]) = 1
           /\ SuggestedBy(1) = { EadItem(id) : id \in (1..59) \ {10, 12, 15} }

(***************************************************************************)
AnalyzedUrls == { an_urls[k] : k \in 1..Len(an_urls) }

\* The ids observed for each path shape in the list: the course and node
\* numbers, and for the products the number their shape captures (the lot).
CourseIds == { id \in 0..99 : EadItem(id) \in AnalyzedUrls }

NodeIds == { id \in 0..99 : NodePage(id) \in AnalyzedUrls }

LotIds == { lot \in 0..99 : LotItem(lot, 5) \in AnalyzedUrls }

\* The integers from max(1, min(ids) - 10) up to min(ids) + 50, that one not
\* included, which are not observed ids.
ExpectedIds(ids) ==
    { i \in (IF SetMin(ids) - 10 < 1 THEN 1 ELSE SetMin(ids) - 10)..(SetMin(ids) + 49) :
        i \notin ids }

\* C25: for each path shape, /node/{id} included, of which the list holds at
\* least three examples, the first analysis proposes exactly one candidate
\* for each integer from max(1, min(ids) - 10) up to min(ids) + 50 that is not
\* an observed id; for a shape with fewer examples it proposes nothing.
C25_RangePerShape ==
    Len(an_out) >= 1 =>
        /\ Cardinality(CourseIds) >= 3
               => SuggestedBy(1) = { EadItem(i) : i \in ExpectedIds(CourseIds) }
        /\ Cardinality(NodeIds) >= 3
               => SuggestedBy(1) = { NodePage(i) : i \in ExpectedIds(NodeIds) }
        /\ Cardinality(LotIds) >= 3
               => Cardinality(SuggestedBy(1)) = Cardinality(ExpectedIds(LotIds))
        /\ (Cardinality(CourseIds) < 3 /\ Cardinality(NodeIds) < 3 /\ Cardinality(LotIds) < 3)
               => SuggestedBy(1) = {}

\* What the first analysis does: the same for the shapes whose urls hold
\* "-<number>", and nothing for three /node/<number> urls (this holds).
C25_ExceptNode ==
    Len(an_out) >= 1 =>
        /\ Cardinality(CourseIds) >= 3
               => SuggestedBy(1) = { EadItem(i) : i \in ExpectedIds(CourseIds) }
        /\ Cardinality(NodeIds) >= 3 => SuggestedBy(1) = {}
        /\ Cardinality(LotIds) >= 3
               => Cardinality(SuggestedBy(1)) = Cardinality(ExpectedIds(LotIds))
        /\ (Cardinality(CourseIds) < 3 /\ Cardinality(NodeIds) < 3 /\ Cardinality(LotIds) < 3)
               => SuggestedBy(1) = {}

(* Claims about the classifier (SpecClassify).                             *)
(***************************************************************************)
Classified == c_result \notin {NoResult, ValueErrorRaised}

SameDomain(url) == startswith_http(url) /\ Search(netloc(url), base_domain)

NamedCategories ==
    {"education", "content", "services", "events", "products", "podcast",
     "recipes", "calculators", "archive"}

\* The url is on the base domain and matches no exclude and no file-download
\* pattern.
PlainSameDomain(url) ==
    /\ SameDomain(url)
    /\ ~matches_any_exclude(url)
    /\ ~matches_file_download(url)

\* C11 as stated: a same-domain url that matches no exclude and no
\* file-download pattern but matches a high-priority pattern is classified
\* with priority 1 and the named category of a pattern it matches.
C11_NamedCategory ==
    (Classified /\ PlainSameDomain(c_url) /\ matches_any_high(c_url))
        => /\ c_result.priority = 1
           /\ c_result.category \in NamedCategories
           /\ \E k \in 1..Len(high_priority_patterns) :
                 /\ matches_high(high_priority_patterns[k], c_url)
                 /\ c_result.category = extract_category(high_priority_patterns[k])

\* The categories the high-priority rule can give.
HighCategories == NamedCategories \cup {"high_priority"}

\* C24: the rules are tried in the order invalid, external, excluded,
\* file_downloads, high priority, medium_priority, general, and the first
\* that matches decides: a same-domain url that is not excluded and matches a
\* file-download pattern is ("file_downloads", 1) whatever else it matches,
\* and one that matches a high-priority and a medium-priority pattern gets the
\* category of the first high-priority pattern it matches.
C24_FirstMatchWins ==
    Classified =>
        /\ ~startswith_http(c_url) => c_result = [category |-> "invalid", priority |-> 0]
        /\ (startswith_http(c_url) /\ ~SameDomain(c_url))
               => c_result = [category |-> "external", priority |-> 0]
        /\ (SameDomain(c_url) /\ matches_any_exclude(c_url))
               => c_result = [category |-> "excluded", priority |-> 0]
        /\ (SameDomain(c_url) /\ ~matches_any_exclude(c_url) /\ matches_file_download(c_url))
               => c_result = [category |-> "file_downloads", priority |-> 1]
        /\ (PlainSameDomain(c_url) /\ matches_any_high(c_url))
               => /\ c_result.priority = 1
                  /\ c_result.category \in HighCategories
                  /\ \E k \in 1..Len(high_priority_patterns) :
                        /\ matches_high(high_priority_patterns[k], c_url)
                        /\ \A j \in 1..(k - 1) : ~matches_high(high_priority_patterns[j], c_url)
                        /\ c_result.category = extract_category(high_priority_patterns[k])
        /\ (PlainSameDomain(c_url) /\ ~matches_any_high(c_url) /\ matches_any_medium(c_url))
               => c_result = [category |-> "medium_priority", priority |-> 1]
        /\ (PlainSameDomain(c_url) /\ ~matches_any_high(c_url) /\ ~matches_any_medium(c_url))
               => c_result = [category |-> "general", priority |-> 1]

\* A same-domain url that is not excluded and matches a file-download, a
\* high-priority and a medium-priority pattern has been classified.
C24_Witness ==
    /\ Classified
    /\ SameDomain(c_url)
    /\ ~matches_any_exclude(c_url)
    /\ matches_file_download(c_url)
    /\ matches_any_high(c_url)
    /\ matches_any_medium(c_url)

Priority0Categories == {"invalid", "external", "excluded"}

\* C12 as stated: for every input string classify returns a priority in
\* {0, 1}, which is 0 exactly when the category is "invalid", "external" or
\* "excluded"; a same-domain url that matches no exclude pattern gets 1.
C12_PriorityZeroOrOne ==
    c_result # NoResult
        => /\ c_result # ValueErrorRaised
           /\ c_result.priority \in {0, 1}
           /\ c_result.priority = 0 <=> c_result.category \in Priority0Categories
           /\ (SameDomain(c_url) /\ ~matches_any_exclude(c_url)) => c_result.priority = 1

\* The same for the calls that return (this holds; C12 fails only through
\* the ValueError of urlparse).
C12_WhenReturned ==
    Classified
        => /\ c_result.priority \in {0, 1}
           /\ c_result.priority = 0 <=> c_result.category \in Priority0Categories
           /\ (SameDomain(c_url) /\ ~matches_any_exclude(c_url)) => c_result.priority = 1

(***************************************************************************)
(* Claims about sequential store calls (SpecSeq).                          *)
(***************************************************************************)
\* The last two calls were add_url_to_mapsite with identical arguments, the
\* url was not in the store before the first, and no file operation of
\* either call failed.
TwoIdenticalAdds ==
    /\ Len(sq_last) = 2
    /\ sq_last[1].op = "add" /\ sq_last[2].op = "add"
    /\ sq_last[1].args = sq_last[2].args
    /\ sq_last[1].io = "ok" /\ sq_last[2].io = "ok"
    /\ ~sq_last[1].known_before

\* C2: add_url_to_mapsite called twice with identical arguments, for a url
\* the store did not hold, returns TRUE and then FALSE, and total_urls after
\* the second call is one more than before the first.
C2_Idempotent ==
    TwoIdenticalAdds
        => /\ sq_last[1].ret = TRUE
           /\ sq_last[2].ret = FALSE
           /\ sq_last[2].total_after = sq_last[1].total_before + 1

\* Two identical adds on a store that already held another url.
C2_Witness ==
    /\ TwoIdenticalAdds
    /\ sq_last[1].total_before >= 1

(***************************************************************************)
(* SpecStore: NumThreads threads calling the store concurrently.  A call   *)
(* is broken at the points where another thread can run in between:        *)
(* taking the lock, reading the file, opening it for writing (which        *)
(* truncates it), writing and closing it, and leaving the with-block.      *)
(***************************************************************************)
not_store == <<classify_vars, seq_vars, crawl_vars, analyze_vars>>

\* The urls and argument tuples the threads use.
ThreadUrls == { base_url \o <<"/", "a">>, base_url \o <<"/", "b">> }

ThreadArgs == { a \in AddArgs : a.url \in ThreadUrls /\ a.phase = "phase1_foundation" } \cup
              { a \in AddArgs : a.url = base_url \o <<"/", "a">> }

\* A thread begins a call.  The threads run the same code, so they are
\* numbered in the order of their first calls.
Begin(t, op, args) ==
    /\ th[t].pc = "idle"
    /\ st_n < MaxStoreCalls
    /\ \A t2 \in 1..(t - 1) : th[t2].op # "none"
    /\ st_n' = st_n + 1
    /\ th' = [th EXCEPT ![t] = [IdleThread EXCEPT
                !.pc = IF op = "stats" THEN "stats_load" ELSE "acquire",
                !.op = op, !.args = args, !.lo = Len(committed)]]
    /\ UNCHANGED <<mapsite_lock, committed, add_true, add_false, file_vars, not_store>>

CallAdd(t) == \E a \in ThreadArgs : Begin(t, "add", a)

CallIsKnown(t) == \E u \in ThreadUrls : Begin(t, "is_known", [NoArgs EXCEPT !.url = u])

CallStats(t) == Begin(t, "stats", NoArgs)

AcquireNoWait(t) ==
    /\ th[t].pc = "acquire"
    /\ mapsite_lock' = t
    /\ th' = [th EXCEPT ![t].pc = "load"]
    /\ UNCHANGED <<st_n, committed, add_true, add_false, file_vars, not_store>>

\* with self.mapsite_lock: blocks until the lock is free.
Acquire(t) ==
    /\ th[t].pc = "acquire"
    /\ mapsite_lock = 0
    /\ mapsite_lock' = t
    /\ th' = [th EXCEPT ![t].pc = "load"]
    /\ UNCHANGED <<st_n, committed, add_true, add_false, file_vars, not_store>>

\* _load_mapsite and the membership test, inside the lock.
Load(t) ==
    /\ th[t].pc = "load"
    /\ \E readOk \in OkOrNot :
         LET data == load_mapsite(mapsite_file, readOk)
             a    == th[t].args
             new  == a.url \notin existing_urls(data)
         IN  /\ io_faults' = Faults(~readOk)
             /\ th' = [th EXCEPT ![t] =
                  IF th[t].op = "is_known"
                  THEN [@ EXCEPT !.pc = "release", !.ret = ~new]
                  ELSE IF new
                  THEN [@ EXCEPT !.pc = "open",
                          !.data = with_new_entry(data, a.url, a.category, a.phase, a.depth)]
                  ELSE [@ EXCEPT !.pc = "release", !.ret = FALSE]]
    /\ UNCHANGED <<mapsite_file, mapsite_lock, st_n, committed, add_true, add_false, not_store>>

\* _save_mapsite_update, first half: open(file, 'w') truncates the file, or
\* raises and leaves it (the except clause then returns False).
Open(t) ==
    /\ th[t].pc = "open"
    /\ \E ok \in OkOrNot :
         LET saved == save_mapsite_update(mapsite_file, th[t].data,
                                          IF ok THEN "write_error" ELSE "open_error")
         IN  /\ mapsite_file' = saved.file
             /\ io_faults' = Faults(~ok)
             /\ th' = [th EXCEPT ![t] =
                  IF ok THEN [@ EXCEPT !.pc = "dump"]
                        ELSE [@ EXCEPT !.pc = "release", !.ret = FALSE]]
    /\ UNCHANGED <<mapsite_lock, st_n, committed, add_true, add_false, not_store>>

\* _save_mapsite_update, second half: json.dump and the close complete, or
\* raise and leave the file truncated.
Dump(t) ==
    /\ th[t].pc = "dump"
    /\ \E ok \in OkOrNot :
         LET saved == save_mapsite_update(mapsite_file, th[t].data,
                                          IF ok THEN "ok" ELSE "write_error")
         IN  /\ mapsite_file' = saved.file
             /\ io_faults' = Faults(~ok)
             /\ committed' = IF ok THEN th[t].data.discovered_urls ELSE committed
             /\ th' = [th EXCEPT ![t].pc = "release", ![t].ret = ~saved.raised]
    /\ UNCHANGED <<mapsite_lock, st_n, add_true, add_false, not_store>>

\* Release leaving the lock taken when the add it ends returned False.
ReleaseUnlessFailed(t) ==
    /\ th[t].pc = "release"
    /\ mapsite_lock' = IF mapsite_lock = t /\ (th[t].op # "add" \/ th[t].ret)
                       THEN 0 ELSE mapsite_lock
    /\ LET u == th[t].args.url
       IN  /\ add_true' = IF th[t].op = "add" /\ th[t].ret
                          THEN [add_true EXCEPT ![u] = @ + 1] ELSE add_true
           /\ add_false' = IF th[t].op = "add" /\ ~th[t].ret
                           THEN [add_false EXCEPT ![u] = @ + 1] ELSE add_false
    /\ th' = [th EXCEPT ![t].pc = "idle"]
    /\ UNCHANGED <<st_n, committed, file_vars, not_store>>

\* Leaving the with-block: the lock is released and the call returns.
Release(t) ==
    /\ th[t].pc = "release"
    /\ mapsite_lock' = IF mapsite_lock = t THEN 0 ELSE mapsite_lock
    /\ LET u == th[t].args.url
       IN  /\ add_true' = IF th[t].op = "add" /\ th[t].ret
                          THEN [add_true EXCEPT ![u] = @ + 1] ELSE add_true
           /\ add_false' = IF th[t].op = "add" /\ ~th[t].ret
                           THEN [add_false EXCEPT ![u] = @ + 1] ELSE add_false
    /\ th' = [th EXCEPT ![t].pc = "idle"]
    /\ UNCHANGED <<st_n, committed, file_vars, not_store>>

\* get_current_stats: _load_mapsite without the lock, then the counts.
StatsLoad(t) ==
    /\ th[t].pc = "stats_load"
    /\ \E readOk \in OkOrNot :
         /\ io_faults' = Faults(~readOk)
         /\ th' = [th EXCEPT ![t].pc = "stats_ret",
                             ![t].stats = stats_of(load_mapsite(mapsite_file, readOk))]
    /\ UNCHANGED <<mapsite_file, mapsite_lock, st_n, committed, add_true, add_false, not_store>>

StatsReturn(t) ==
    /\ th[t].pc = "stats_ret"
    /\ th' = [th EXCEPT ![t].pc = "idle"]
    /\ UNCHANGED <<mapsite_lock, st_n, committed, add_true, add_false, file_vars, not_store>>

InitStore == InitFile /\ IdleThreads /\ IdleSeq /\ IdleClassify /\ IdleCrawler /\ IdleAnalyze

NextStore ==
    \/ \E t \in Threads : CallAdd(t)
    \/ \E t \in Threads : CallIsKnown(t)
    \/ \E t \in Threads : CallStats(t)
    \/ \E t \in Threads : Acquire(t)
    \/ \E t \in Threads : Load(t)
    \/ \E t \in Threads : Open(t)
    \/ \E t \in Threads : Dump(t)
    \/ \E t \in Threads : Release(t)
    \/ \E t \in Threads : StatsLoad(t)
    \/ \E t \in Threads : StatsReturn(t)

SpecStore == InitStore /\ [][NextStore]_vars

(***************************************************************************)
(* Claims about concurrent store calls (SpecStore).                        *)
(***************************************************************************)
\* A step of the call thread t is in.
ThreadStep(t) ==
    \/ Acquire(t) \/ Load(t) \/ Open(t) \/ Dump(t) \/ Release(t)
    \/ StatsLoad(t) \/ StatsReturn(t)

\* Every thread that is in a call and can take a step does take one: the
\* threads are scheduled, and a thread waits only for the lock.
SpecStoreFair == InitStore /\ [][NextStore]_vars /\ \A t \in Threads : WF_vars(ThreadStep(t))

Returned(u) == add_true[u] + add_false[u]

RecordsOf(file, u) ==
    Cardinality({ i \in 1..Len(file.discovered_urls) : file.discovered_urls[i].url = u })

Quiescent == \A t \in Threads : th[t].pc = "idle"

\* C1: with no file operation failing, of the add_url_to_mapsite calls for
\* one url that have returned, in any interleaving, exactly one returned
\* True and the others False, and the file holds exactly one record of that
\* url whenever it is not in the middle of being rewritten.
C1_OneTruePerUrl ==
    ~io_failed =>
        \A u \in StoreUrls :
            Returned(u) >= 1 =>
                /\ add_true[u] = 1
                /\ add_false[u] = Returned(u) - 1
                /\ mapsite_file.parseable => RecordsOf(mapsite_file, u) = 1

\* Two calls for the same url that overlapped (the second began before the
\* first returned) have both returned.
C1_Witness ==
    /\ ~io_failed
    /\ Quiescent
    /\ \E u \in StoreUrls : add_true[u] = 1 /\ add_false[u] >= 1
    /\ \E t \in Threads : th[t].op = "add" /\ th[t].lo = 0 /\ th[t].ret = FALSE

\* C4 as stated: once every call has returned, total_urls of
\* get_current_stats is the number of distinct urls for which
\* add_url_to_mapsite returned True.
C4_TotalIsAccepted ==
    Quiescent =>
        TotalNow(mapsite_file) = Cardinality({ u \in StoreUrls : add_true[u] >= 1 })

\* The same, restricted to behaviours in which no file operation fails
\* (this holds; C4 fails only through a failed read or write).
C4_NoFault == ~io_failed => C4_TotalIsAccepted

\* The aggregates of the record sets the store held between the start of
\* thread t's get_current_stats call and now (records are only appended, so
\* these are the prefixes of the committed list from the length it had when
\* the call began).
StatsDuring(t) ==
    { stats_of([discovered_urls |-> SubSeq(committed, 1, k), total_count |-> k])
        : k \in th[t].lo..Len(committed) }

\* C5: with no file operation failing, a get_current_stats call that
\* overlaps add_url_to_mapsite calls returns the aggregate of a record set
\* the store held during the call, never that of a partly written file.
C5_StatsAtomic ==
    ~io_failed =>
        \A t \in Threads : th[t].pc = "stats_ret" => th[t].stats \in StatsDuring(t)

(***************************************************************************)
(* Spec: one run of run_ultra_deep_discovery in a fresh data directory.    *)
(* The collaborators (Firecrawl's scrape_url, the file system) choose      *)
(* their answers freely from bounded sets.                                 *)
(***************************************************************************)
RawLinks ==
    { <<"/", "a">>, <<"/", "b">>, <<"http://", "other.com", "/", "c">> }

RECURSIVE ListsUpTo(_, _)
ListsUpTo(S, n) ==
    IF n = 0 THEN { <<>> }
    ELSE LET shorter == ListsUpTo(S, n - 1)
         IN  shorter \cup { Append(l, x) : l \in { m \in shorter : Len(m) = n - 1 }, x \in S }

\* The seed page of the end-to-end scenario, and one with three links.
EndToEndLinks ==
    << <<"/", "a">>, <<"/", "b">>, <<"http://", "other.com", "/", "c">>, <<"tel:", "123">> >>

ThreeLinks == << <<"/", "a">>, <<"/", "b">>, <<"/", "ead">> >>

\* A seed page listing three numbered products.
PatternLinks ==
    << <<"/", "produtos", "/", "item", "-", "1">>, <<"/", "produtos", "/", "item", "-", "2">>,
       <<"/", "produtos", "/", "item", "-", "3">> >>

PageLinkLists == ListsUpTo(RawLinks, MaxPageLinks)

\* A seed page with a link of each kind that is left out: an excluded one,
\* an external one, and a repeat.
MixedLinks ==
    << <<"/", "a">>, <<"/", "user", "/", "logout">>,
       <<"http://", "other.com", "/", "c">>, <<"/", "a">> >>

SeedLinkLists ==
    ListsUpTo(RawLinks, MaxLinks) \cup { EndToEndLinks, ThreeLinks, PatternLinks, MixedLinks }

\* What scrape_url does: it raises, or returns a result with these links.
FetchOutcomes(lists) ==
    { [raised |-> TRUE, links |-> <<>>] } \cup { [raised |-> FALSE, links |-> l] : l \in lists }

RECURSIVE rstrip(_, _)
rstrip(s, c) == IF s # <<>> /\ s[Len(s)] = c THEN rstrip(SubSeq(s, 1, Len(s) - 1), c) ELSE s

RECURSIVE lstrip(_, _)
lstrip(s, c) == IF s # <<>> /\ Head(s) = c THEN lstrip(Tail(s), c) ELSE s

\* Lines 903-910: the url a link stands for, or skip (an empty link, or one
\* starting with "../").
normalize_link(url) ==
    IF url = <<>> THEN [skip |-> TRUE, url |-> url]
    ELSE IF StartsWith(url, <<"/">>)
         THEN [skip |-> FALSE, url |-> rstrip(base_url, "/") \o url]
    ELSE IF StartsWith(url, <<"..", "/">>)
         THEN [skip |-> TRUE, url |-> url]
    ELSE IF ~startswith_http(url)
         THEN [skip |-> FALSE, url |-> rstrip(base_url, "/") \o <<"/">> \o lstrip(url, "/")]
    ELSE [skip |-> FALSE, url |-> url]

InList(x, l) == \E i \in 1..Len(l) : l[i] = x

machine_vars == <<classify_vars, seq_vars, thread_vars, analyze_vars>>

\* A run that goes on to the recursive phase after a seed fetch without
\* links.
Phase1FetchGoesOn ==
    /\ pc = "phase1"
    /\ \E out \in FetchOutcomes(SeedLinkLists) :
         /\ fetched' = Append(fetched, base_url)
         /\ seed_links' = out.links
         /\ failed_phases' = IF out.raised THEN Failed("phase1_foundation")
                                         ELSE failed_phases
         /\ IF out.raised \/ out.links = <<>>
            THEN /\ pc' = "phase2"
                 /\ UNCHANGED <<ctx, links, run_result>>
            ELSE /\ pc' = "save_content"
                 /\ ctx' = [source |-> base_url, phase |-> "phase1_foundation", depth |-> 0,
                            category |-> "homepage", after |-> "phase1_queue",
                            saved |-> FALSE, save_failed |-> "none"]
                 /\ links' = out.links
                 /\ UNCHANGED run_result
    /\ UNCHANGED <<crawl_queue, queued_urls, failed_urls, cur, processed_urls, truly_new, wi,
                   last_text, popped, fresh_links, artifacts, last_enq, last_add, n_pops, total_reported, late_vars,
                   file_vars, machine_vars>>

\* phase1_foundation_discovery, lines 629-645: the fetch of the seed page.
\* An exception or a result without links makes the phase return [] and the
\* run return False.
Phase1Fetch ==
    /\ pc = "phase1"
    /\ \E out \in FetchOutcomes(SeedLinkLists) :
         /\ fetched' = Append(fetched, base_url)
         /\ seed_links' = out.links
         /\ failed_phases' = IF out.raised THEN Failed("phase1_foundation")
                                         ELSE failed_phases
         /\ IF out.raised \/ out.links = <<>>
            THEN /\ pc' = "done"
                 /\ run_result' = "failed"
                 /\ UNCHANGED <<ctx, links>>
            ELSE /\ pc' = "save_content"
                 /\ ctx' = [source |-> base_url, phase |-> "phase1_foundation", depth |-> 0,
                            category |-> "homepage", after |-> "phase1_queue",
                            saved |-> FALSE, save_failed |-> "none"]
                 /\ links' = out.links
                 /\ UNCHANGED run_result
    /\ UNCHANGED <<crawl_queue, queued_urls, failed_urls, cur, processed_urls, truly_new, wi,
                   last_text, popped, fresh_links, artifacts, last_enq, last_add, n_pops, total_reported, late_vars,
                   file_vars, machine_vars>>

\* What can go wrong in one save_scraped_content call: the serializer of the
\* response raises (lines 468-492), or opening or writing the file raises
\* (lines 456-457).  Either counts among the failures bounded by MaxFaults.
SaveOutcomes == {"ok", "serialize_error", "write_error"}

\* save_scraped_content returning True whatever happened.
save_scraped_content_always_true(url, phase, depth, category, failure) ==
    [written |-> IF failure = "write_error"
                 THEN <<>>
                 ELSE <<[url |-> url, phase |-> phase, depth |-> depth, category |-> category]>>,
     ret |-> TRUE]

\* save_scraped_content: the artifacts it writes and the value it returns.
\* _serialize_firecrawl_response catches its own exception and returns an
\* error payload (lines 491-492), so the artifact is written and the call
\* returns True; an exception of open or json.dump is caught at line 462
\* and the call returns False.
save_scraped_content(url, phase, depth, category, failure) ==
    [written |-> IF failure = "write_error"
                 THEN <<>>
                 ELSE <<[url |-> url, phase |-> phase, depth |-> depth, category |-> category]>>,
     ret |-> failure # "write_error"]

\* _process_complete_response, lines 886-893: save_scraped_content (which
\* reports a failed write by returning False, ignored here), then [] at once
\* when the result has no links.
SaveContent ==
    /\ pc = "save_content"
    /\ \E failure \in IoChoices(SaveOutcomes) :
       \E s \in {save_scraped_content(ctx.source, ctx.phase, ctx.depth, ctx.category, failure)} :
         /\ io_faults' = Faults(failure # "ok")
         /\ artifacts' = artifacts \o s.written
         /\ ctx' = [ctx EXCEPT !.saved = s.ret, !.save_failed = failure]
    /\ processed_urls' = <<>>
    /\ wi' = 1
    /\ pc' = IF links = <<>> THEN ctx.after ELSE "links"
    /\ UNCHANGED <<crawl_queue, queued_urls, failed_urls, cur, links, truly_new,
                   seed_links, last_text, popped, fresh_links, failed_phases, fetched, last_enq, last_add, n_pops, run_result,
                   total_reported, late_vars, mapsite_file, machine_vars>>

\* ProcessLink storing a link whatever its priority.
ProcessLinkUnclassified ==
    /\ pc = "links"
    /\ \E n \in {normalize_link(Head(links))} :
       \E c \in {classify_url(n.url)} :
         IF ~n.skip /\ c.priority >= 0 /\ ~InList(n.url, processed_urls)
         THEN \E io \in IoChoices(IoOutcomes) :
              \E r \in {add_url_to_mapsite(mapsite_file, n.url, c.category,
                                           ctx.phase, ctx.depth + 1, io)} :
                /\ mapsite_file' = r.file
                /\ io_faults' = Faults(io # "ok")
                /\ processed_urls' = Append(processed_urls, n.url)
                /\ last_add' = [url |-> n.url, phase |-> ctx.phase, depth |-> ctx.depth + 1,
                                ret |-> r.ret,
                                known |-> is_url_already_discovered(mapsite_file, n.url, "ok")]
         ELSE UNCHANGED <<file_vars, processed_urls, last_add>>
    /\ links' = Tail(links)
    /\ pc' = IF Tail(links) = <<>> THEN ctx.after ELSE "links"
    /\ UNCHANGED <<crawl_queue, queued_urls, failed_urls, cur, ctx, truly_new, wi,
                   seed_links, last_text, popped, fresh_links, failed_phases, fetched, artifacts, last_enq, n_pops, run_result,
                   total_reported, late_vars, machine_vars>>

\* _process_complete_response, lines 897-920: one link of the response.
ProcessLink ==
    /\ pc = "links"
    /\ \E n \in {normalize_link(Head(links))} :
       \E c \in {classify_url(n.url)} :
         IF ~n.skip /\ c.priority > 0 /\ ~InList(n.url, processed_urls)
         THEN \E io \in IoChoices(IoOutcomes) :
              \E r \in {add_url_to_mapsite(mapsite_file, n.url, c.category,
                                           ctx.phase, ctx.depth + 1, io)} :
                /\ mapsite_file' = r.file
                /\ io_faults' = Faults(io # "ok")
                /\ processed_urls' = Append(processed_urls, n.url)
                /\ last_add' = [url |-> n.url, phase |-> ctx.phase, depth |-> ctx.depth + 1,
                                ret |-> r.ret,
                                known |-> is_url_already_discovered(mapsite_file, n.url, "ok")]
         ELSE UNCHANGED <<file_vars, processed_urls, last_add>>
    /\ links' = Tail(links)
    /\ pc' = IF Tail(links) = <<>> THEN ctx.after ELSE "links"
    /\ UNCHANGED <<crawl_queue, queued_urls, failed_urls, cur, ctx, truly_new, wi,
                   seed_links, last_text, popped, fresh_links, failed_phases, fetched, artifacts, last_enq, n_pops, run_result,
                   total_reported, late_vars, machine_vars>>

\* crawl_queue.append((url, depth, category)); queued_urls.add(url), with the
\* record of what held at that moment.
Enqueue(url, depth, c, phase) ==
    /\ crawl_queue' = Append(crawl_queue, [url |-> url, depth |-> depth, category |-> c.category])
    /\ queued_urls' = queued_urls \cup {url}
    /\ last_enq' = [url |-> url, depth |-> depth, phase |-> phase, priority |-> c.priority,
                    known |-> is_url_already_discovered(mapsite_file, url, "ok"),
                    queued |-> url \in queued_urls]

\* phase1_foundation_discovery, lines 650-654: one url of foundation_urls.
Phase1Queue ==
    /\ pc = "phase1_queue"
    /\ wi <= Len(processed_urls)
    /\ LET url == processed_urls[wi]
           c   == classify_url(url)
       IN  IF c.priority > 0
           THEN Enqueue(url, 1, c, "phase1_foundation")
           ELSE UNCHANGED <<crawl_queue, queued_urls, last_enq>>
    /\ wi' = wi + 1
    /\ UNCHANGED <<pc, failed_urls, cur, ctx, links, processed_urls, truly_new,
                   seed_links, last_text, popped, fresh_links, failed_phases, fetched, artifacts, last_add, n_pops, run_result,
                   total_reported, late_vars, file_vars, machine_vars>>

\* The local variables of a call that has returned, or of a loop iteration
\* that has ended, hold nothing.
LocalsGone ==
    /\ cur' = NoEntry
    /\ ctx' = NoCtx
    /\ processed_urls' = <<>>
    /\ truly_new' = <<>>
    /\ wi' = 1

\* phase1_foundation_discovery returns foundation_urls; lines 986-989 of
\* run_ultra_deep_discovery give up when the list is empty.
Phase1Return ==
    /\ pc = "phase1_queue"
    /\ wi > Len(processed_urls)
    /\ IF processed_urls = <<>>
       THEN pc' = "done" /\ run_result' = "failed"
       ELSE pc' = "phase2" /\ UNCHANGED run_result
    /\ LocalsGone
    /\ UNCHANGED <<crawl_queue, queued_urls, failed_urls, links, seed_links, last_text, popped, fresh_links, failed_phases, fetched, artifacts, last_enq, last_add,
                   n_pops, total_reported, late_vars, file_vars, machine_vars>>

\* Phase2Pop with pop() instead of popleft(): the newest entry is taken.
Phase2PopRight ==
    /\ pc = "phase2"
    /\ crawl_queue # <<>>
    /\ cur' = crawl_queue[Len(crawl_queue)]
    /\ crawl_queue' = SubSeq(crawl_queue, 1, Len(crawl_queue) - 1)
    /\ n_pops' = n_pops + 1
    /\ popped' = Append(popped, [url |-> crawl_queue[Len(crawl_queue)].url, depth |-> crawl_queue[Len(crawl_queue)].depth])
    /\ \E io \in IoChoices({"ok", "read_error"}) :
         /\ io_faults' = Faults(io # "ok")
         /\ pc' = IF is_url_already_discovered(mapsite_file, crawl_queue[Len(crawl_queue)].url, io)
                  THEN "phase2" ELSE "crawl"
    /\ UNCHANGED <<queued_urls, failed_urls, ctx, links, processed_urls, truly_new, wi,
                   seed_links, last_text, fresh_links, failed_phases, fetched, artifacts, last_enq, last_add, run_result,
                   total_reported, late_vars, mapsite_file, machine_vars>>

\* phase2_recursive_discovery, lines 676-682: popleft, then skip the url when
\* the store knows it.
Phase2Pop ==
    /\ pc = "phase2"
    /\ crawl_queue # <<>>
    /\ cur' = Head(crawl_queue)
    /\ crawl_queue' = Tail(crawl_queue)
    /\ n_pops' = n_pops + 1
    /\ popped' = Append(popped, [url |-> Head(crawl_queue).url, depth |-> Head(crawl_queue).depth])
    /\ \E io \in IoChoices({"ok", "read_error"}) :
         /\ io_faults' = Faults(io # "ok")
         /\ pc' = IF is_url_already_discovered(mapsite_file, Head(crawl_queue).url, io)
                  THEN "phase2" ELSE "crawl"
    /\ UNCHANGED <<queued_urls, failed_urls, ctx, links, processed_urls, truly_new, wi,
                   seed_links, last_text, fresh_links, failed_phases, fetched, artifacts, last_enq, last_add, run_result,
                   total_reported, late_vars, mapsite_file, machine_vars>>

\* The links of a response that _process_complete_response keeps (priority
\* > 0) and that are neither stored nor queued at this moment.
FreshAmong(page_links) ==
    { n.url : n \in { m \in { normalize_link(page_links[i]) : i \in 1..Len(page_links) } :
                        /\ ~m.skip
                        /\ classify_url(m.url).priority > 0
                        /\ ~is_url_already_discovered(mapsite_file, m.url, "ok")
                        /\ m.url \notin queued_urls } }

\* _crawl_single_url, lines 928-949: scrape_url raises (the url goes to
\* failed_urls and the result is []), or its result is processed.
Crawl ==
    /\ pc = "crawl"
    /\ fetched' = Append(fetched, cur.url)
    /\ truly_new' = <<>>
    /\ \E out \in FetchOutcomes(PageLinkLists) :
         IF out.raised
         THEN /\ failed_urls' = failed_urls \cup {cur.url}
              /\ failed_phases' = Failed("phase2_recursive")
              /\ pc' = "phase2_discard"
              /\ UNCHANGED <<ctx, links, fresh_links>>
         ELSE /\ ctx' = [source |-> cur.url, phase |-> "phase2_recursive", depth |-> cur.depth,
                         category |-> cur.category, after |-> "filter_new",
                         saved |-> FALSE, save_failed |-> "none"]
              /\ links' = out.links
              /\ fresh_links' = FreshAmong(out.links)
              /\ pc' = "save_content"
              /\ UNCHANGED <<failed_urls, failed_phases>>
    /\ UNCHANGED <<crawl_queue, queued_urls, cur, processed_urls, wi,
                   seed_links, last_text, popped, artifacts, last_enq, last_add, n_pops, run_result,
                   total_reported, late_vars, file_vars, machine_vars>>

\* _crawl_single_url, line 943: one url of the list comprehension.
FilterNew ==
    /\ pc = "filter_new"
    /\ wi <= Len(processed_urls)
    /\ \E io \in IoChoices({"ok", "read_error"}) :
         /\ io_faults' = Faults(io # "ok")
         /\ truly_new' = IF is_url_already_discovered(mapsite_file, processed_urls[wi], io)
                         THEN truly_new
                         ELSE Append(truly_new, processed_urls[wi])
    /\ wi' = wi + 1
    /\ UNCHANGED <<pc, crawl_queue, queued_urls, failed_urls, cur, ctx, links, processed_urls,
                   seed_links, last_text, popped, fresh_links, failed_phases, fetched, artifacts, last_enq, last_add, n_pops, run_result,
                   total_reported, late_vars, mapsite_file, machine_vars>>

\* _crawl_single_url returns truly_new; line 689 enters the queueing loop
\* only when it is not empty.
FilterReturn ==
    /\ pc = "filter_new"
    /\ wi > Len(processed_urls)
    /\ pc' = IF truly_new # <<>> THEN "phase2_queue" ELSE "phase2_discard"
    /\ wi' = 1
    /\ UNCHANGED <<crawl_queue, queued_urls, failed_urls, cur, ctx, links, processed_urls,
                   truly_new, seed_links, last_text, popped, fresh_links, failed_phases, fetched, artifacts, last_enq, last_add, n_pops,
                   run_result, total_reported, late_vars, file_vars, machine_vars>>

\* Phase2Queue without the test against queued_urls.
Phase2QueueUnchecked ==
    /\ pc = "phase2_queue"
    /\ wi <= Len(truly_new)
    /\ \E io \in IoChoices({"ok", "read_error"}) :
         LET new_url == truly_new[wi]
             c       == classify_url(new_url)
         IN  /\ io_faults' = Faults(io # "ok")
             /\ IF /\ ~is_url_already_discovered(mapsite_file, new_url, io)
                   /\ c.priority > 0
                THEN Enqueue(new_url, cur.depth + 1, c, "phase2_recursive")
                ELSE UNCHANGED <<crawl_queue, queued_urls, last_enq>>
    /\ wi' = wi + 1
    /\ UNCHANGED <<pc, failed_urls, cur, ctx, links, processed_urls, truly_new,
                   seed_links, last_text, popped, fresh_links, failed_phases, fetched, artifacts, last_add, n_pops, run_result,
                   total_reported, late_vars, mapsite_file, machine_vars>>

\* phase2_recursive_discovery, lines 694-701: one url of new_urls.
Phase2Queue ==
    /\ pc = "phase2_queue"
    /\ wi <= Len(truly_new)
    /\ \E io \in IoChoices({"ok", "read_error"}) :
         LET new_url == truly_new[wi]
             c       == classify_url(new_url)
         IN  /\ io_faults' = Faults(io # "ok")
             /\ IF /\ ~is_url_already_discovered(mapsite_file, new_url, io)
                   /\ new_url \notin queued_urls
                   /\ c.priority > 0
                THEN Enqueue(new_url, cur.depth + 1, c, "phase2_recursive")
                ELSE UNCHANGED <<crawl_queue, queued_urls, last_enq>>
    /\ wi' = wi + 1
    /\ UNCHANGED <<pc, failed_urls, cur, ctx, links, processed_urls, truly_new,
                   seed_links, last_text, popped, fresh_links, failed_phases, fetched, artifacts, last_add, n_pops, run_result,
                   total_reported, late_vars, mapsite_file, machine_vars>>

Phase2QueueDone ==
    /\ pc = "phase2_queue"
    /\ wi > Len(truly_new)
    /\ pc' = "phase2_discard"
    /\ UNCHANGED <<crawl_queue, queued_urls, failed_urls, cur, ctx, links, processed_urls,
                   truly_new, wi, seed_links, last_text, popped, fresh_links, failed_phases, fetched, artifacts, last_enq, last_add, n_pops,
                   run_result, total_reported, late_vars, file_vars, machine_vars>>

\* phase2_recursive_discovery, lines 707-716: the end of one iteration (the
\* statistics read there are only printed).
Phase2Discard ==
    /\ pc = "phase2_discard"
    /\ queued_urls' = queued_urls \ {cur.url}
    /\ fresh_links' = {}
    /\ pc' = "phase2"
    /\ LocalsGone
    /\ UNCHANGED <<crawl_queue, failed_urls, links, seed_links, last_text, popped, failed_phases, fetched, artifacts, last_enq, last_add, n_pops,
                   run_result, total_reported, late_vars, file_vars, machine_vars>>

\* A loop that may also stop after a dequeue while urls are still queued.
Phase2ExitEarly ==
    /\ pc = "phase2"
    /\ crawl_queue = <<>> \/ n_pops >= 1
    /\ pc' = "phase3"
    /\ LocalsGone
    /\ UNCHANGED <<crawl_queue, queued_urls, failed_urls, links, seed_links, last_text, popped, fresh_links, failed_phases, fetched, artifacts, last_enq, last_add, n_pops,
                   run_result, total_reported, late_vars, file_vars, machine_vars>>

\* phase2_recursive_discovery, line 676: the loop ends when the queue is
\* empty.
Phase2Exit ==
    /\ pc = "phase2"
    /\ crawl_queue = <<>>
    /\ pc' = "phase3"
    /\ LocalsGone
    /\ UNCHANGED <<crawl_queue, queued_urls, failed_urls, links, seed_links, last_text, popped, fresh_links, failed_phases, fetched, artifacts, last_enq, last_add, n_pops,
                   run_result, total_reported, late_vars, file_vars, machine_vars>>

\* The links of phase 3's collaborator: extract_interactive_urls returns
\* list(set(...)) of absolute urls, or raises when playwright cannot be
\* imported (line 160 is outside its try).
InteractiveUrls ==
    { base_url \o <<"/", "a">>, <<"http://", "other.com", "/", "c">> }

InteractiveLists ==
    { l \in ListsUpTo(InteractiveUrls, MaxInteractive) :
        \A i \in 1..Len(l), j \in 1..Len(l) : i # j => l[i] # l[j] }

SamplePerCategory == 10

\* Lines 958-966: category_urls groups the records by category, a dict in
\* insertion order; the first SamplePerCategory urls of each category are
\* the targets, category by category.  A record comes before another when
\* its category was seen first, or they share it and it was stored first.
first_of_category(records, i) ==
    CHOOSE j \in 1..i :
        /\ records[j].category = records[i].category
        /\ \A k \in 1..(j - 1) : records[k].category # records[i].category

place_in_category(records, i) ==
    Cardinality({ j \in 1..i : records[j].category = records[i].category })

targets_of(records) ==
    LET selected   == { i \in 1..Len(records) : place_in_category(records, i) <= SamplePerCategory }
        before(i)  == { j \in selected :
                          \/ first_of_category(records, j) < first_of_category(records, i)
                          \/ /\ first_of_category(records, j) = first_of_category(records, i)
                             /\ j < i }
        at(p)      == CHOOSE i \in selected : Cardinality(before(i)) = p - 1
    IN  [p \in 1..Cardinality(selected) |->
            [url |-> records[at(p)].url, category |-> records[at(p)].category]]

\* _select_interactive_targets: the first urls of every category, category
\* by category.
select_interactive_targets(data) == targets_of(data.discovered_urls)

\* phase3_interactive_discovery, line 733.
Phase3Select ==
    /\ pc = "phase3"
    /\ \E io \in IoChoices({"ok", "read_error"}) :
       \E data \in {load_mapsite(mapsite_file, io # "read_error")} :
         /\ io_faults' = Faults(io # "ok")
         /\ targets' = select_interactive_targets(data)
    /\ pc' = "phase3_targets"
    /\ UNCHANGED <<crawl_queue, queued_urls, failed_urls, cur, ctx, links, processed_urls,
                   truly_new, wi, interactive_urls, discovered_patterns, candidates,
                   phase4_urls, seed_links, last_text, popped, fresh_links, failed_phases, fetched, artifacts, last_enq, last_add, n_pops,
                   run_result, total_reported, mapsite_file, machine_vars>>

\* Phase3Extract with the try statement around the loop instead of inside
\* it: an exception of the collaborator ends the phase.
Phase3ExtractStops ==
    /\ pc = "phase3_targets"
    /\ targets # <<>>
    /\ targets' = Tail(targets)
    /\ \E out \in FetchOutcomes(InteractiveLists) :
         /\ interactive_urls' = out.links
         /\ failed_phases' = IF out.raised THEN Failed("phase3_interactive")
                                         ELSE failed_phases
         /\ pc' = IF out.raised THEN "phase4"
                  ELSE IF out.links = <<>> THEN "phase3_targets" ELSE "phase3_links"
    /\ UNCHANGED <<crawl_queue, queued_urls, failed_urls, cur, ctx, links, processed_urls,
                   truly_new, wi, discovered_patterns, candidates, phase4_urls,
                   seed_links, last_text, popped, fresh_links, fetched, artifacts, last_enq, last_add, n_pops,
                   run_result, total_reported, file_vars, machine_vars>>

\* phase3_interactive_discovery, lines 742-749 and 771-772: the next target;
\* an exception of the collaborator ends this target only.
Phase3Extract ==
    /\ pc = "phase3_targets"
    /\ targets # <<>>
    /\ targets' = Tail(targets)
    /\ \E out \in FetchOutcomes(InteractiveLists) :
         /\ interactive_urls' = out.links
         /\ failed_phases' = IF out.raised THEN Failed("phase3_interactive")
                                         ELSE failed_phases
         /\ pc' = IF out.raised \/ out.links = <<>> THEN "phase3_targets" ELSE "phase3_links"
    /\ UNCHANGED <<crawl_queue, queued_urls, failed_urls, cur, ctx, links, processed_urls,
                   truly_new, wi, discovered_patterns, candidates, phase4_urls,
                   seed_links, last_text, popped, fresh_links, fetched, artifacts, last_enq, last_add, n_pops,
                   run_result, total_reported, file_vars, machine_vars>>

\* Phase3Link storing every surfaced url that is not there, whatever its
\* priority.
Phase3LinkUnclassified ==
    /\ pc = "phase3_links"
    /\ LET int_url == Head(interactive_urls)
           c       == classify_url(int_url)
       IN  \E io \in IoChoices(IoOutcomes \cup {"check_error"}) :
             LET existing == existing_urls(load_mapsite(mapsite_file, io # "check_error"))
             IN  IF int_url \notin existing
                 THEN LET r == add_url_to_mapsite(mapsite_file, int_url, c.category,
                                                  "phase3_interactive", 0,
                                                  IF io = "check_error" THEN "ok" ELSE io)
                      IN  /\ mapsite_file' = r.file
                          /\ io_faults' = Faults(io # "ok")
                          /\ last_add' = [url |-> int_url, phase |-> "phase3_interactive",
                                          depth |-> 0, ret |-> r.ret,
                                          known |-> is_url_already_discovered(mapsite_file, int_url, "ok")]
                 ELSE /\ io \in {"ok", "check_error"}
                      /\ io_faults' = Faults(io # "ok")
                      /\ UNCHANGED <<mapsite_file, last_add>>
    /\ interactive_urls' = Tail(interactive_urls)
    /\ pc' = IF Tail(interactive_urls) = <<>> THEN "phase3_targets" ELSE "phase3_links"
    /\ UNCHANGED <<crawl_queue, queued_urls, failed_urls, cur, ctx, links, processed_urls,
                   truly_new, wi, targets, discovered_patterns, candidates, phase4_urls,
                   seed_links, last_text, popped, fresh_links, failed_phases, fetched, artifacts, last_enq, n_pops,
                   run_result, total_reported, machine_vars>>

\* phase3_interactive_discovery, lines 753-763: one url of interactive_urls.
\* The membership test reads the file without the lock (check_error: that
\* read fails); add_url_to_mapsite then reads it again.
Phase3Link ==
    /\ pc = "phase3_links"
    /\ LET int_url == Head(interactive_urls)
           c       == classify_url(int_url)
       IN  \E io \in IoChoices(IoOutcomes \cup {"check_error"}) :
             LET existing == existing_urls(load_mapsite(mapsite_file, io # "check_error"))
             IN  IF int_url \notin existing /\ c.priority > 0
                 THEN LET r == add_url_to_mapsite(mapsite_file, int_url, c.category,
                                                  "phase3_interactive", 0,
                                                  IF io = "check_error" THEN "ok" ELSE io)
                      IN  /\ mapsite_file' = r.file
                          /\ io_faults' = Faults(io # "ok")
                          /\ last_add' = [url |-> int_url, phase |-> "phase3_interactive",
                                          depth |-> 0, ret |-> r.ret,
                                          known |-> is_url_already_discovered(mapsite_file, int_url, "ok")]
                 ELSE /\ io \in {"ok", "check_error"}
                      /\ io_faults' = Faults(io # "ok")
                      /\ UNCHANGED <<mapsite_file, last_add>>
    /\ interactive_urls' = Tail(interactive_urls)
    /\ pc' = IF Tail(interactive_urls) = <<>> THEN "phase3_targets" ELSE "phase3_links"
    /\ UNCHANGED <<crawl_queue, queued_urls, failed_urls, cur, ctx, links, processed_urls,
                   truly_new, wi, targets, discovered_patterns, candidates, phase4_urls,
                   seed_links, last_text, popped, fresh_links, failed_phases, fetched, artifacts, last_enq, n_pops,
                   run_result, total_reported, machine_vars>>

\* phase3_interactive_discovery returns when every target was visited.
Phase3Exit ==
    /\ pc = "phase3_targets"
    /\ targets = <<>>
    /\ pc' = "phase4"
    /\ UNCHANGED <<crawl_queue, queued_urls, failed_urls, cur, ctx, links, processed_urls,
                   truly_new, wi, late_vars, seed_links, last_text, popped, fresh_links, failed_phases, fetched, artifacts, last_enq,
                   last_add, n_pops, run_result, total_reported, file_vars, machine_vars>>

RECURSIVE all_suggestions(_)
all_suggestions(patterns) ==
    IF patterns = <<>> THEN <<>>
    ELSE Head(patterns).suggestions \o all_suggestions(Tail(patterns))

\* phase4_pattern_completion, lines 789-795: the stored urls are analysed;
\* without patterns the phase returns at once.
Phase4Analyze ==
    /\ pc = "phase4"
    /\ \E io \in IoChoices({"ok", "read_error"}) :
       \E data \in {load_mapsite(mapsite_file, io # "read_error")} :
       \E all_discovered \in {[k \in 1..Len(data.discovered_urls) |-> data.discovered_urls[k].url]} :
       \E analysis \in {analyze_patterns(discovered_patterns, all_discovered)} :
         /\ io_faults' = Faults(io # "ok")
         /\ discovered_patterns' = analysis.discovered_patterns
         /\ candidates' = all_suggestions(analysis.patterns)
         /\ pc' = IF analysis.patterns = <<>> THEN "summary" ELSE "phase4_candidates"
    /\ UNCHANGED <<crawl_queue, queued_urls, failed_urls, cur, ctx, links, processed_urls,
                   truly_new, wi, targets, interactive_urls, phase4_urls,
                   seed_links, last_text, popped, fresh_links, failed_phases, fetched, artifacts, last_enq, last_add, n_pops,
                   run_result, total_reported, mapsite_file, machine_vars>>

ContentThreshold == 100

\* The suggested urls that exist on the site.
PagesWithContent == { base_url \o <<"/", "produtos", "/", "item", "-", "4", "9">> }

\* The suggested urls whose page holds exactly ContentThreshold characters.
PagesWithShortText == { base_url \o <<"/", "produtos", "/", "item", "-", "5", "0">> }

\* What scrape_url does for a suggested url: it raises, or returns a result
\* whose markdown has this length once stripped (0: no markdown at all); the
\* links of a result with enough markdown are looked at.
Phase4Outcomes(url) ==
    { [raised |-> TRUE, markdown |-> 0, links |-> <<>>],
      [raised |-> FALSE, markdown |-> 0, links |-> <<>>] } \cup
    { [raised |-> FALSE, markdown |-> ContentThreshold, links |-> <<>>] :
        l \in IF url \in PagesWithShortText THEN {<<>>} ELSE {} } \cup
    { [raised |-> FALSE, markdown |-> ContentThreshold + 1, links |-> l] :
        l \in IF url \in PagesWithContent THEN PageLinkLists ELSE {} }

\* Phase4Fetch accepting every result that has markdown at all, whatever its
\* length.
Phase4FetchAnyText ==
    /\ pc = "phase4_candidates"
    /\ candidates # <<>>
    /\ LET suggested_url == Head(candidates)
       IN  /\ fetched' = Append(fetched, suggested_url)
           /\ \E out \in Phase4Outcomes(suggested_url) :
                /\ last_text' = [url |-> suggested_url, markdown |-> out.markdown]
                /\ failed_phases' = IF out.raised THEN Failed("phase4_patterns")
                                                ELSE failed_phases
                /\ IF ~out.raised /\ out.markdown > 0
                   THEN /\ phase4_urls' = Append(phase4_urls, suggested_url)
                        /\ ctx' = [source |-> suggested_url, phase |-> "phase4_patterns",
                                   depth |-> 0,
                                   category |-> classify_url(suggested_url).category,
                                   after |-> "phase4_candidates",
                                   saved |-> FALSE, save_failed |-> "none"]
                        /\ links' = out.links
                        /\ pc' = "save_content"
                   ELSE UNCHANGED <<phase4_urls, ctx, links, pc>>
    /\ candidates' = Tail(candidates)
    /\ UNCHANGED <<crawl_queue, queued_urls, failed_urls, cur, processed_urls,
                   truly_new, wi, targets, interactive_urls, discovered_patterns,
                   seed_links, popped, fresh_links, artifacts, last_enq, last_add, n_pops,
                   run_result, total_reported, file_vars, machine_vars>>

\* phase4_pattern_completion, lines 806-836: one suggested url.  It is
\* fetched; a result with enough markdown is counted and handed to
\* _process_complete_response with depth 0.
Phase4Fetch ==
    /\ pc = "phase4_candidates"
    /\ candidates # <<>>
    /\ LET suggested_url == Head(candidates)
       IN  /\ fetched' = Append(fetched, suggested_url)
           /\ \E out \in Phase4Outcomes(suggested_url) :
                /\ last_text' = [url |-> suggested_url, markdown |-> out.markdown]
                /\ failed_phases' = IF out.raised THEN Failed("phase4_patterns")
                                                ELSE failed_phases
                /\ IF ~out.raised /\ out.markdown > ContentThreshold
                   THEN /\ phase4_urls' = Append(phase4_urls, suggested_url)
                        /\ ctx' = [source |-> suggested_url, phase |-> "phase4_patterns",
                                   depth |-> 0,
                                   category |-> classify_url(suggested_url).category,
                                   after |-> "phase4_candidates",
                                   saved |-> FALSE, save_failed |-> "none"]
                        /\ links' = out.links
                        /\ pc' = "save_content"
                   ELSE UNCHANGED <<phase4_urls, ctx, links, pc>>
    /\ candidates' = Tail(candidates)
    /\ UNCHANGED <<crawl_queue, queued_urls, failed_urls, cur, processed_urls,
                   truly_new, wi, targets, interactive_urls, discovered_patterns,
                   seed_links, popped, fresh_links, artifacts, last_enq, last_add, n_pops,
                   run_result, total_reported, file_vars, machine_vars>>

\* phase4_pattern_completion returns when every suggestion was tested.
Phase4Exit ==
    /\ pc = "phase4_candidates"
    /\ candidates = <<>>
    /\ pc' = "summary"
    /\ LocalsGone
    /\ UNCHANGED <<crawl_queue, queued_urls, failed_urls, links, late_vars, seed_links, last_text, popped, fresh_links, failed_phases, fetched, artifacts, last_enq,
                   last_add, n_pops, run_result, total_reported, file_vars, machine_vars>>

\* save_ultra_comprehensive_results: total_urls of get_current_stats is
\* printed and the run returns True.
Summary ==
    /\ pc = "summary"
    /\ \E io \in IoChoices({"ok", "read_error"}) :
         /\ io_faults' = Faults(io # "ok")
         /\ total_reported' = get_current_stats(mapsite_file, io).total_urls
    /\ run_result' = "ok"
    /\ pc' = "done"
    /\ UNCHANGED <<crawl_queue, queued_urls, failed_urls, cur, ctx, links, processed_urls,
                   truly_new, wi, seed_links, last_text, popped, fresh_links, failed_phases, fetched, artifacts, last_enq, last_add, n_pops,
                   late_vars, mapsite_file, machine_vars>>

Init == InitFile /\ CrawlerAt("phase1") /\ IdleClassify /\ IdleSeq /\ IdleThreads /\ IdleAnalyze

Next ==
    \/ Phase1Fetch \/ SaveContent \/ ProcessLink \/ Phase1Queue \/ Phase1Return
    \/ Phase2Pop \/ Crawl \/ FilterNew \/ FilterReturn \/ Phase2Queue \/ Phase2QueueDone
    \/ Phase2Discard \/ Phase2Exit
    \/ Phase3Select \/ Phase3Extract \/ Phase3Link \/ Phase3Exit
    \/ Phase4Analyze \/ Phase4Fetch \/ Phase4Exit
    \/ Summary

Spec == Init /\ [][Next]_vars

\* The run goes on while it is not done: it is one thread that nothing
\* stops.
SpecFair == Init /\ [][Next]_vars /\ WF_vars(Next)

(***************************************************************************)
(* Claims about the run.                                                   *)
(***************************************************************************)
StoredUrls == existing_urls(load_mapsite(mapsite_file, TRUE))

StoredPhases ==
    { mapsite_file.discovered_urls[i].phase : i \in 1..Len(mapsite_file.discovered_urls) }

InPhase2 ==
    \/ pc \in {"phase2", "crawl", "filter_new", "phase2_queue", "phase2_discard"}
    \/ pc \in {"save_content", "links"} /\ ctx.phase = "phase2_recursive"

\* C3: in every state of a run, whatever the phase and whatever add_url
\* calls link processing and interactive discovery have made, no two records
\* of the store carry the same url.
C3_OneRecordPerUrl ==
    \A i \in 1..Len(mapsite_file.discovered_urls), j \in 1..Len(mapsite_file.discovered_urls) :
        i # j => mapsite_file.discovered_urls[i].url # mapsite_file.discovered_urls[j].url

\* A page accepted by pattern completion links to a url that interactive
\* discovery had stored: the second add is refused.
C3_Witness ==
    /\ last_add.phase = "phase4_patterns"
    /\ last_add.known
    /\ ~last_add.ret
    /\ RecordsOf(mapsite_file, last_add.url) = 1
    /\ {"phase1_foundation", "phase3_interactive"} \subseteq StoredPhases

\* C6: every append to the queue, in the foundation phase and in the
\* recursive phase alike, is for a url that at that moment has priority > 0,
\* is not known to the store and is not in queued_urls.
C6_EnqueuePrecondition ==
    last_enq # NoEnq =>
        /\ last_enq.priority > 0
        /\ ~last_enq.known
        /\ ~last_enq.queued

EndToEndA == base_url \o <<"/", "a">>
EndToEndB == base_url \o <<"/", "b">>

\* C7: when the seed page returns [/a, /b, http://other.com/c, tel:123], /a
\* and /b classify ("general", 1), the external link ("external", 0), the tel
\* link ("excluded", 0), and after the foundation phase the queue holds
\* exactly /a and /b at depth 1 and nothing else is stored.
C7_EndToEnd ==
    (seed_links = EndToEndLinks /\ pc = "phase2" /\ n_pops = 0 /\ ~io_failed) =>
        /\ classify_url(normalize_link(EndToEndLinks[1]).url) = [category |-> "general", priority |-> 1]
        /\ classify_url(normalize_link(EndToEndLinks[2]).url) = [category |-> "general", priority |-> 1]
        /\ classify_url(normalize_link(EndToEndLinks[3]).url) = [category |-> "external", priority |-> 0]
        /\ classify_url(normalize_link(EndToEndLinks[4]).url) = [category |-> "excluded", priority |-> 0]
        /\ crawl_queue = << [url |-> EndToEndA, depth |-> 1, category |-> "general"],
                            [url |-> EndToEndB, depth |-> 1, category |-> "general"] >>
        /\ StoredUrls = {EndToEndA, EndToEndB}

\* C8: the recursive phase is left only from the head of its loop with the
\* queue empty, there an empty queue ends it, and the phase, once entered,
\* does come to its end (every fetch of the model returns or raises).
C8_StopsWhenEmpty ==
    /\ [][ /\ (InPhase2 /\ ~InPhase2') => (pc = "phase2" /\ crawl_queue = <<>>)
           /\ (pc = "phase2" /\ crawl_queue = <<>>) => pc' = "phase3" ]_vars
    /\ InPhase2 ~> ~InPhase2

\* The phase has ended on an empty queue after at least three dequeues, one
\* of them of a url that a crawl of this phase had queued.
C8_Witness ==
    /\ pc = "phase3"
    /\ crawl_queue = <<>>
    /\ n_pops >= 3
    /\ last_enq.phase = "phase2_recursive"

OnlyFoundationRecords == StoredPhases \subseteq {"phase1_foundation"}

C14_SeedFailureAborts ==
    (fetched # <<>> /\ seed_links = <<>>)
        => /\ pc = "done"
           /\ run_result = "failed"
           /\ fetched = <<base_url>>
           /\ n_pops = 0

\* The seed fetch has failed or returned no links.
C14_Witness ==
    /\ fetched = <<base_url>>
    /\ seed_links = <<>>
    /\ run_result = "failed"

InPhase3 == pc \in {"phase3", "phase3_targets", "phase3_links"}

InPhase4 ==
    \/ pc \in {"phase4", "phase4_candidates"}
    \/ pc \in {"save_content", "links"} /\ ctx.phase = "phase4_patterns"

LaterPhases == {"phase2_recursive", "phase3_interactive", "phase4_patterns"}

\* C15: an exception while one url is processed (the fetch of a dequeued url
\* in phase 2, the interactive session of one target in phase 3, the fetch of
\* one suggestion in phase 4) ends neither the phase nor the run: a phase is
\* left only with its work list empty and for the next phase, a failed run
\* has no such exception behind it, and after such an exception the run goes
\* on, through the later phases, until it returns True.
C15_FailuresDoNotStop ==
    /\ [](run_result = "failed" => failed_phases \cap LaterPhases = {})
    /\ [][ /\ (InPhase2 /\ ~InPhase2') => (crawl_queue = <<>> /\ pc' = "phase3")
           /\ (InPhase3 /\ ~InPhase3') => (targets = <<>> /\ pc' = "phase4")
           /\ (InPhase4 /\ ~InPhase4') => (candidates' = <<>> /\ pc' = "summary")
           /\ (pc = "summary" /\ pc' # "summary") => (pc' = "done" /\ run_result' = "ok") ]_vars
    /\ (failed_phases \cap LaterPhases # {}) ~> (pc = "done" /\ run_result = "ok")

\* A run that returned True although a fetch raised in phase 2, a session in
\* phase 3 and a fetch in phase 4.
C15_Witness == pc = "done" /\ run_result = "ok" /\ failed_phases = LaterPhases

\* C16: when a fetch raises, in whatever phase, the url that was fetched is in
\* failed_urls from then on, and failed_urls only grows.  The interactive
\* session of phase 3 is not a fetch and is left out.
C16_FailedFetchRecorded ==
    [][ /\ failed_urls \subseteq failed_urls'
        /\ (pc = "phase1" /\ "phase1_foundation" \in failed_phases')
               => base_url \in failed_urls'
        /\ (pc = "crawl" /\ failed_phases' # failed_phases)
               => (cur.url \in failed_urls' /\ pc' = "phase2_discard")
        /\ (pc = "phase4_candidates" /\ failed_phases' # failed_phases)
               => Head(candidates) \in failed_urls' ]_vars

\* What the code does of C16: failed_urls only grows, and a fetch of phase 2
\* that raises puts its url there and goes on with the queue.
C16_RecursiveOnly ==
    [][ /\ failed_urls \subseteq failed_urls'
        /\ (pc = "crawl" /\ failed_phases' # failed_phases)
               => (cur.url \in failed_urls' /\ pc' = "phase2_discard") ]_vars

\* The seed fetch raised and failed_urls is empty when the run is over.
C16_SeedNotRecorded ==
    ~(pc = "done" /\ "phase1_foundation" \in failed_phases /\ failed_urls = {})

\* A fetch of phase 4 raised and failed_urls is empty when the run is over.
C16_SuggestionNotRecorded ==
    ~(pc = "done" /\ "phase4_patterns" \in failed_phases /\ failed_urls = {})

\* The records a reader finds in the file.
RecordsIn(file) ==
    { load_mapsite(file, TRUE).discovered_urls[i] :
        i \in 1..Len(load_mapsite(file, TRUE).discovered_urls) }

\* The add_url_to_mapsite call this step makes, if it makes one.
AddStep == sq_n' = sq_n + 1 /\ sq_last'[Len(sq_last')].op = "add"

AddStepIo == sq_last'[Len(sq_last')].io

\* C17: an add_url_to_mapsite call during which the read or the write of the
\* file fails returns False, and every record the store held before the call
\* is still there, unchanged, after it and after every later call that
\* succeeds.
C17_FailedAddKeepsRecords ==
    [][ /\ (AddStep /\ AddStepIo # "ok")
               => /\ sq_last'[Len(sq_last')].ret = FALSE
                  /\ RecordsIn(mapsite_file) \subseteq RecordsIn(mapsite_file')
        /\ (AddStep /\ AddStepIo = "ok")
               => RecordsIn(mapsite_file) \subseteq RecordsIn(mapsite_file') ]_vars

\* What the code does of C17: a call whose open for writing fails returns
\* False and leaves every record, a call whose write fails returns False, and a
\* call without failure keeps every record.
C17_WhenOpenFails ==
    [][ /\ (AddStep /\ AddStepIo = "open_error")
               => /\ sq_last'[Len(sq_last')].ret = FALSE
                  /\ RecordsIn(mapsite_file) \subseteq RecordsIn(mapsite_file')
        /\ (AddStep /\ AddStepIo = "write_error") => sq_last'[Len(sq_last')].ret = FALSE
        /\ (AddStep /\ AddStepIo = "ok")
               => RecordsIn(mapsite_file) \subseteq RecordsIn(mapsite_file') ]_vars

\* After an add whose read failed: it returned True and the store, which held
\* a record before, holds only the new one.
C17_ReadFailureLosesRecords ==
    ~(/\ sq_last # <<>>
      /\ sq_last[Len(sq_last)].op = "add"
      /\ sq_last[Len(sq_last)].io = "read_error"
      /\ sq_last[Len(sq_last)].ret = TRUE
      /\ sq_last[Len(sq_last)].total_before >= 1
      /\ sq_last[Len(sq_last)].total_after = 1)

\* After an add whose write failed: it returned False and the store, which
\* held a record before, holds none.
C17_WriteFailureLosesRecords ==
    ~(/\ sq_last # <<>>
      /\ sq_last[Len(sq_last)].op = "add"
      /\ sq_last[Len(sq_last)].io = "write_error"
      /\ sq_last[Len(sq_last)].ret = FALSE
      /\ sq_last[Len(sq_last)].total_before >= 1
      /\ sq_last[Len(sq_last)].total_after = 0)

\* C18: while no file operation has failed, every step of the run, whatever
\* the phase, leaves the records of the store in place, in order and with
\* their category, phase and depth (it can only append), and total_urls of
\* get_current_stats does not decrease.
C18_AppendOnly ==
    [][ ~io_failed' =>
          /\ Len(mapsite_file.discovered_urls) <= Len(mapsite_file'.discovered_urls)
          /\ SubSeq(mapsite_file'.discovered_urls, 1, Len(mapsite_file.discovered_urls))
                 = mapsite_file.discovered_urls
          /\ RecordsIn(mapsite_file) \subseteq RecordsIn(mapsite_file')
          /\ TotalNow(mapsite_file') >= TotalNow(mapsite_file) ]_vars

\* A run without failed file operation is over; phase 1 and a later phase
\* have added records.
C18_Witness ==
    /\ pc = "done"
    /\ ~io_failed
    /\ "phase1_foundation" \in StoredPhases
    /\ StoredPhases \ {"phase1_foundation"} # {}
    /\ TotalNow(mapsite_file) >= 3

\* The dequeue, in this step, of an entry the foundation phase queued (the
\* entries of depth 1).
FoundationDequeue ==
    /\ pc = "phase2"
    /\ crawl_queue # <<>>
    /\ Head(crawl_queue).depth = 1
    /\ n_pops' = n_pops + 1

\* C19: a url the foundation phase queued is not known to the store when it
\* is dequeued, and the recursive phase goes on to fetch it.  (Stated for the
\* runs without failed file operation; the store is empty at the start.)
C19_FoundationUrlsFetched ==
    [][ (FoundationDequeue /\ ~io_failed')
            => /\ ~is_url_already_discovered(mapsite_file, Head(crawl_queue).url, "ok")
               /\ pc' = "crawl" ]_vars

\* What the code does: without failed file operation every url the foundation
\* phase queued is known when it is dequeued and is skipped, and the recursive
\* phase fetches nothing.
C19_FoundationUrlsSkipped ==
    /\ [][ (FoundationDequeue /\ ~io_failed')
               => /\ is_url_already_discovered(mapsite_file, Head(crawl_queue).url, "ok")
                  /\ pc' = "phase2" ]_vars
    /\ [](~io_failed => pc # "crawl")

\* The step that ends the processing of a url whose fetch succeeded.
FetchedUrlDone == pc = "phase2_discard" /\ ctx.phase = "phase2_recursive"

Queued(url, depth) ==
    \E i \in 1..Len(crawl_queue') : crawl_queue'[i].url = url /\ crawl_queue'[i].depth = depth

\* C20: when the recursive phase has processed a url, dequeued at depth d,
\* whose fetch succeeded, every link of the page with priority > 0 that was
\* neither stored nor in queued_urls when the page was fetched is in the
\* queue at depth d + 1, and the url itself is not in queued_urls.
C20_NewLinksQueued ==
    [][ FetchedUrlDone =>
          /\ \A u \in fresh_links : Queued(u, cur.depth + 1)
          /\ cur.url \notin queued_urls' ]_vars

\* What the code does of C20: the url leaves queued_urls.
C20_OnlyDiscarded == [][ FetchedUrlDone => cur.url \notin queued_urls' ]_vars

\* A page was fetched in phase 2 with a link that was new; the link was
\* stored, the store still holds it, and it is not in the queue when the page
\* is done.
C20_LinkNotQueued ==
    ~(/\ FetchedUrlDone
      /\ fresh_links # {}
      /\ fresh_links \subseteq StoredUrls
      /\ \A i \in 1..Len(crawl_queue) : crawl_queue[i].url \notin fresh_links)

(***************************************************************************)
(* Claims about the queue of the recursive phase.                          *)
(***************************************************************************)
\* The dequeue this step makes, if it makes one.
Dequeue == pc = "phase2" /\ n_pops' = n_pops + 1

KnownNow(url) == is_url_already_discovered(mapsite_file, url, "ok")

\* C21: at every dequeue of the recursive phase the store is asked again: a
\* url the store holds at that moment is skipped (no fetch, hence no artifact
\* for it), and only a url it does not hold goes on to the fetch.
C21_RecheckOnDequeue ==
    [][ Dequeue =>
          /\ KnownNow(Head(crawl_queue).url) => (pc' = "phase2" /\ fetched' = fetched)
          /\ pc' = "crawl" => ~KnownNow(Head(crawl_queue).url) ]_vars

\* The same for the dequeues at which the read of the file does not fail
\* (this holds), with the fetch that follows for the urls not held.
C21_WhenReadWorks ==
    [][ (Dequeue /\ io_faults' = io_faults) =>
          /\ KnownNow(Head(crawl_queue).url) => (pc' = "phase2" /\ fetched' = fetched)
          /\ ~KnownNow(Head(crawl_queue).url) => pc' = "crawl" ]_vars

\* A url the store holds is being fetched by the recursive phase.
C21_KnownUrlFetched == ~(pc = "crawl" /\ KnownNow(cur.url))

PoppedUrls == { popped[i].url : i \in 1..Len(popped) }

\* The append to the queue this step makes, if it makes one.
AppendStep == Len(crawl_queue') = Len(crawl_queue) + 1

\* C22: a url that was dequeued, whatever happened to it then, is never
\* appended to the queue again.
C22_NeverRequeued ==
    [][ AppendStep => crawl_queue'[Len(crawl_queue')].url \notin PoppedUrls ]_vars

\* The same for the runs in which no file operation fails (this holds).
C22_WithoutFaults ==
    [][ (AppendStep /\ ~io_failed') => crawl_queue'[Len(crawl_queue')].url \notin PoppedUrls ]_vars

\* A url that was dequeued and fetched is in the queue again.
C22_Requeued ==
    ~(\E i \in 1..Len(crawl_queue) :
         /\ crawl_queue[i].url \in PoppedUrls
         /\ InList(crawl_queue[i].url, fetched))

\* C23: the queue is first in, first out: a dequeue takes the entry at the
\* head, an append puts its entry at the tail, nothing else changes the
\* queue, and so the entries leave in the order in which they were appended;
\* the depths of the entries dequeued one after the other never decrease.
C23_StrictFifo ==
    /\ [][ /\ Dequeue => /\ crawl_queue' = Tail(crawl_queue)
                         /\ popped'[Len(popped')].url = Head(crawl_queue).url
                         /\ popped'[Len(popped')].depth = Head(crawl_queue).depth
           /\ AppendStep => SubSeq(crawl_queue', 1, Len(crawl_queue)) = crawl_queue
           /\ (~Dequeue /\ ~AppendStep) => crawl_queue' = crawl_queue ]_vars
    /\ [](\A i \in 1..Len(popped), j \in 1..Len(popped) :
              i < j => popped[i].depth <= popped[j].depth)

\* Three entries were dequeued, the last of them one that the recursive
\* phase appended while the others were queued or processed.
C23_Witness ==
    /\ Len(popped) >= 3
    /\ popped[1].depth = 1
    /\ popped[Len(popped)].depth = 2

(***************************************************************************)
(* Claims about pattern completion.                                        *)
(***************************************************************************)
\* The step that tests the suggestion at the head of the list.
CandidateStep == pc = "phase4_candidates" /\ candidates # <<>> /\ candidates' = Tail(candidates)

\* The fetch gave markdown whose stripped length is above the threshold.
Hit(text) == text.markdown > ContentThreshold

SavedFor(url, phase) ==
    \E i \in 1..Len(artifacts) : artifacts[i].url = url /\ artifacts[i].phase = phase

\* Every suggestion is fetched, one after the other and none twice, a result
\* that is no hit adds nothing to failed_urls or to the output, and the list
\* is worked through.
AllCandidatesTested ==
    /\ [][ CandidateStep =>
             /\ fetched' = Append(fetched, Head(candidates))
             /\ last_text'.url = Head(candidates)
             /\ failed_urls' = failed_urls
             /\ Hit(last_text') <=> phase4_urls' = Append(phase4_urls, Head(candidates))
             /\ ~Hit(last_text') => (phase4_urls' = phase4_urls /\ pc' = "phase4_candidates")
             /\ Hit(last_text') => (pc' = "save_content" /\ ctx'.source = Head(candidates)) ]_vars
    /\ [](pc = "phase4_candidates" =>
             \A i \in 1..Len(candidates), j \in 1..Len(candidates) :
                 i # j => candidates[i] # candidates[j])

\* C26 as stated: every suggestion is fetched once, and it is accepted, its
\* artifact saved and the url counted in the output of the phase, exactly
\* when the stripped markdown is longer than 100; a result that is no hit is
\* not put in failed_urls and the test of the others goes on.
C26_Original ==
    /\ AllCandidatesTested
    /\ []((last_text # NoText /\ pc # "save_content") =>
            (Hit(last_text) <=> /\ InList(last_text.url, phase4_urls)
                                /\ SavedFor(last_text.url, "phase4_patterns")))

\* C26 (amended): the url is counted in the output of the phase exactly when
\* the stripped markdown is longer than 100, and then save_scraped_content is
\* called for it: the artifact is there unless its write failed, and there is
\* none for a result that is no hit.
C26_AcceptedIffLong ==
    /\ AllCandidatesTested
    /\ []((last_text # NoText /\ pc # "save_content") =>
            /\ Hit(last_text) <=> InList(last_text.url, phase4_urls)
            /\ SavedFor(last_text.url, "phase4_patterns") => Hit(last_text)
            /\ (Hit(last_text) /\ ~io_failed) => SavedFor(last_text.url, "phase4_patterns"))
    /\ [][ (pc = "save_content" /\ ctx.phase = "phase4_patterns") =>
             \/ SavedFor(ctx.source, "phase4_patterns")'
             \/ artifacts' = artifacts /\ io_faults' = io_faults + 1 ]_vars

\* Pattern completion is over; it accepted a suggestion and the last result
\* was markdown of exactly 100 characters, which is no hit.
C26_Witness ==
    /\ pc = "summary"
    /\ phase4_urls # <<>>
    /\ SavedFor(phase4_urls[1], "phase4_patterns")
    /\ last_text.markdown = ContentThreshold
    /\ ~InList(last_text.url, phase4_urls)

(***************************************************************************)
(* Claims about interactive discovery.                                     *)
(***************************************************************************)
\* The step that handles one url the collaborator surfaced.
SurfacedStep == pc = "phase3_links" /\ interactive_urls' = Tail(interactive_urls)

\* add_url_to_mapsite was called in this step and returned True.
AddedNow(url) ==
    /\ last_add' # last_add \/ mapsite_file' # mapsite_file
    /\ last_add'.url = url
    /\ last_add'.phase = "phase3_interactive"
    /\ last_add'.ret

\* C27 as stated: once a surfaced url is handled it is in the store exactly
\* when it has priority > 0 or was there already, and it never has more than
\* one record.
C27_Original ==
    [][ SurfacedStep =>
          /\ Head(interactive_urls) \in existing_urls(load_mapsite(mapsite_file', TRUE))
                <=> \/ classify_url(Head(interactive_urls)).priority > 0
                    \/ Head(interactive_urls) \in StoredUrls
          /\ RecordsOf(mapsite_file', Head(interactive_urls)) <= 1 ]_vars

\* C27 (amended): a surfaced url reaches the store only through
\* classify_url and add_url_to_mapsite: once it is handled it is in the store
\* exactly when it was there already or it has priority > 0 and its add
\* returned True; a url of priority 0 changes nothing, a url of priority > 0
\* is stored whenever no file operation of its step fails, and no surfaced
\* url has more than one record.
C27_ThroughClassifyAndAdd ==
    [][ SurfacedStep =>
          /\ Head(interactive_urls) \in existing_urls(load_mapsite(mapsite_file', TRUE))
                <=> \/ Head(interactive_urls) \in StoredUrls
                    \/ /\ classify_url(Head(interactive_urls)).priority > 0
                       /\ AddedNow(Head(interactive_urls))
          /\ classify_url(Head(interactive_urls)).priority <= 0 => mapsite_file' = mapsite_file
          /\ (classify_url(Head(interactive_urls)).priority > 0 /\ io_faults' = io_faults)
                => Head(interactive_urls) \in existing_urls(load_mapsite(mapsite_file', TRUE))
          /\ RecordsOf(mapsite_file', Head(interactive_urls)) <= 1 ]_vars

\* A url that interactive discovery had stored for one target was surfaced
\* again by another; the add was refused and the url has one record.
C27_Witness ==
    /\ last_add.phase = "phase3_interactive"
    /\ last_add.known
    /\ ~last_add.ret
    /\ RecordsOf(mapsite_file, last_add.url) = 1
    /\ \E i \in 1..Len(mapsite_file.discovered_urls) :
          /\ mapsite_file.discovered_urls[i].url = last_add.url
          /\ mapsite_file.discovered_urls[i].phase = "phase3_interactive"

(***************************************************************************)
(* Claims about is_url_already_discovered under concurrent calls           *)
(* (SpecStore).                                                            *)
(***************************************************************************)
\* Thread t has the answer of an is_url_already_discovered call in hand.
IsKnownAnswered(t) == th[t].op = "is_known" /\ th[t].pc = "release"

\* A step of an is_url_already_discovered call.
IsKnownStep ==
    \E t \in Threads : /\ th[t].op = "is_known"
                       /\ th[t].pc # "idle"
                       /\ th'[t] # th[t]

\* No step of is_url_already_discovered changes the file.
IsKnownReadsOnly == [][ IsKnownStep => mapsite_file' = mapsite_file ]_vars

\* C28 as stated: is_url_already_discovered changes nothing in the store, and
\* it answers True exactly when an earlier add_url_to_mapsite for the same
\* url has returned True, also while adds for other urls are running.
C28_KnownIffAdded ==
    /\ IsKnownReadsOnly
    /\ [](\A t \in Threads :
            IsKnownAnswered(t) => (th[t].ret <=> add_true[th[t].args.url] >= 1))

\* The same with no file operation failing.
C28_WhenFilesWork ==
    /\ IsKnownReadsOnly
    /\ [](\A t \in Threads :
            (~io_failed /\ IsKnownAnswered(t))
                => (th[t].ret <=> add_true[th[t].args.url] >= 1))

\* is_url_already_discovered answered True while an add for another url was
\* under way, with no file operation failing.
C28_KnownDuringOtherAdd ==
    /\ ~io_failed
    /\ \E t \in Threads, t2 \in Threads :
          /\ IsKnownAnswered(t) /\ th[t].ret
          /\ th[t2].op = "add" /\ th[t2].pc = "acquire"
          /\ th[t2].args.url # th[t].args.url

(***************************************************************************)
(* Claims about saving the content of a fetched page.                      *)
(***************************************************************************)
\* The save_scraped_content call of _process_complete_response.
SaveStep == pc = "save_content"

\* save_scraped_content returns and _process_complete_response goes on to
\* the links of the same response, with the store file as it was.
SaveReturns ==
    [][ SaveStep => /\ pc' = IF links = <<>> THEN ctx.after ELSE "links"
                    /\ links' = links
                    /\ processed_urls' = <<>>
                    /\ mapsite_file' = mapsite_file ]_vars

\* After a save that failed, a link of the same response is classified and,
\* with priority > 0 and not yet seen in this response, handed to
\* add_url_to_mapsite with the depth of the page plus one.
LinksStoredAfterFailedSave ==
    [][ (pc = "links" /\ ctx.save_failed # "ok") =>
          LET n == normalize_link(Head(links))
              c == classify_url(n.url)
          IN  IF ~n.skip /\ c.priority > 0 /\ ~InList(n.url, processed_urls)
              THEN /\ last_add'.url = n.url
                   /\ last_add'.depth = ctx.depth + 1
                   /\ last_add'.ret => n.url \in existing_urls(load_mapsite(mapsite_file', TRUE))
                   /\ io_faults' = io_faults
                        => n.url \in existing_urls(load_mapsite(mapsite_file', TRUE))
              ELSE mapsite_file' = mapsite_file ]_vars

\* C29 as stated: save_scraped_content returns False when serialization or
\* the disk write fails and never raises; the caller then still classifies
\* and stores the links of the same response, and the failed save leaves the
\* records of the store as they were.
C29_Original ==
    /\ SaveReturns
    /\ [][ SaveStep => (ctx'.save_failed # "ok" => ~ctx'.saved) ]_vars
    /\ LinksStoredAfterFailedSave

\* C29 (amended): save_scraped_content never raises; it returns False when
\* opening or writing the file fails, and True, with the artifact written,
\* when only the serializer of the response fails; after either failure the
\* caller classifies and stores the links of the same response, and the save
\* leaves the records of the store as they were.
C29_FalseOnFailedWrite ==
    /\ SaveReturns
    /\ [][ SaveStep => /\ ctx'.saved <=> ctx'.save_failed # "write_error"
                       /\ IF ctx'.saved
                          THEN artifacts' = Append(artifacts,
                                   [url |-> ctx.source, phase |-> ctx.phase,
                                    depth |-> ctx.depth, category |-> ctx.category])
                          ELSE artifacts' = artifacts ]_vars
    /\ LinksStoredAfterFailedSave

\* The write of a page's content failed, the call returned False, and a link
\* of that page was stored afterwards.
C29_Witness ==
    /\ pc = "links"
    /\ ctx.save_failed = "write_error"
    /\ ~ctx.saved
    /\ last_add.phase = ctx.phase
    /\ last_add.depth = ctx.depth + 1
    /\ last_add.ret
    /\ last_add.url \in StoredUrls
    /\ InList(last_add.url, processed_urls)

(***************************************************************************)
(* Claims about the depth of the records.                                  *)
(***************************************************************************)
Records == load_mapsite(mapsite_file, TRUE).discovered_urls

\* The depth stored with a url that has a record.
RecordDepth(url) ==
    Records[CHOOSE i \in 1..Len(Records) : Records[i].url = url].depth

\* The distance from the seed of the page whose links are being processed,
\* when that page is the seed or has a record.
SourceHasDistance == ctx.source = base_url \/ ctx.source \in StoredUrls

SourceDistance == IF ctx.source = base_url THEN 0 ELSE RecordDepth(ctx.source)

\* A link of a fetched page gets a record.
LinkRecorded ==
    /\ pc = "links"
    /\ last_add'.ret
    /\ last_add'.url \notin StoredUrls
    /\ last_add'.url \in existing_urls(load_mapsite(mapsite_file', TRUE))

\* The records made in the given phases: none but the seed's has distance 0.
DepthsPositive(phases) ==
    \A i \in 1..Len(Records) :
        (Records[i].phase \in phases /\ Records[i].url # base_url)
            => Records[i].depth >= 1

\* A link recorded in one of the given phases from a page at distance d
\* gets d + 1.
DepthStep(phases) ==
    (LinkRecorded /\ SourceHasDistance /\ ctx.phase \in phases)
        => last_add'.depth = SourceDistance + 1

\* C30 as stated: the depth of every record is the distance of its url from
\* the seed, for the records of every phase.
C30_DepthIsDistance ==
    /\ []DepthsPositive(Phases)
    /\ [][DepthStep(Phases)]_vars

\* The same for the records made by the foundation and recursive phases
\* while no file operation has failed.
C30_CrawlPhases ==
    /\ [](~io_failed => DepthsPositive({"phase1_foundation", "phase2_recursive"}))
    /\ [][~io_failed' => DepthStep({"phase1_foundation", "phase2_recursive"})]_vars

\* A link found on a page of depth 1 was recorded with depth 2.
C30_DepthTwoRecorded ==
    /\ pc = "links"
    /\ ctx.phase = "phase2_recursive"
    /\ ctx.depth = 1
    /\ last_add.ret
    /\ last_add.depth = 2
    /\ last_add.url \in StoredUrls
    /\ RecordDepth(last_add.url) = 2

(***************************************************************************)
(* Claims about the whole run.                                             *)
(***************************************************************************)
\* The positions of url in the sequence of fetches of the run.
FetchesOf(url) == { i \in 1..Len(fetched) : fetched[i] = url }

\* C31 as stated: over the whole run no url is fetched more than once.
C31_FetchedOnce == \A i \in 1..Len(fetched) : Cardinality(FetchesOf(fetched[i])) <= 1

\* The same while no file operation has failed.
C31_WhenFilesWork == ~io_failed => C31_FetchedOnce

\* Some url was fetched twice.
C31_FetchedTwice == \E i \in 1..Len(fetched) : Cardinality(FetchesOf(fetched[i])) >= 2

\* The urls of the entries of the queue.
QueueUrls == { crawl_queue[i].url : i \in 1..Len(crawl_queue) }

\* C32 as stated: at every iteration boundary of the loop of the recursive
\* phase, queued_urls is the set of the urls in crawl_queue.
C32_QueuedIsQueue == pc = "phase2" => queued_urls = QueueUrls

\* What holds instead: every url in the queue is in queued_urls.
C32_QueueWithinQueued == pc = "phase2" => QueueUrls \subseteq queued_urls

\* A url was skipped as known and is still in queued_urls, with no file
\* operation failed.
C32_SkippedStillQueued ==
    /\ pc = "phase2"
    /\ ~io_failed
    /\ n_pops >= 1
    /\ fetched = <<base_url>>
    /\ popped[Len(popped)].url \in queued_urls \ QueueUrls

SeqRange(s) == { s[i] : i \in 1..Len(s) }

\* C33: in every state of the run no two entries of crawl_queue carry the
\* same url, whatever links the seed and the fetched pages return.
C33_NoDuplicateInQueue ==
    \A i \in 1..Len(crawl_queue), j \in 1..Len(crawl_queue) :
        crawl_queue[i].url = crawl_queue[j].url => i = j

\* A fetched page linked to a url that phase 1 had queued and that was still
\* waiting; the queue holds that url once.
C33_Witness ==
    /\ pc = "phase2_discard"
    /\ cur.url \in SeqRange(fetched)
    /\ \E i \in 1..Len(crawl_queue) :
          /\ crawl_queue[i].depth = 1
          /\ InList(crawl_queue[i].url, processed_urls)

\* The seed page gave the same link twice and the url was queued once.
C33_RepeatedSeedLink ==
    /\ pc = "phase2"
    /\ n_pops = 0
    /\ Len(seed_links) = 2
    /\ seed_links[1] = seed_links[2]
    /\ Len(crawl_queue) = 1
\* C34 as stated: every url in the store and every url in the queue is one
\* that classify_url gives priority 1; a url classified invalid, external or
\* excluded is never stored or queued.
C34_OnlyPriorityOne ==
    /\ \A url \in StoredUrls : classify_url(url).priority = 1
    /\ \A url \in QueueUrls : classify_url(url).priority = 1


\* The seed page linked to /a twice, to a logout page and to another site;
\* only /a was stored and queued.
C34_Witness ==
    /\ seed_links = MixedLinks
    /\ pc = "phase2"
    /\ n_pops = 0
    /\ classify_url(normalize_link(MixedLinks[2]).url) = [category |-> "excluded", priority |-> 0]
    /\ classify_url(normalize_link(MixedLinks[3]).url) = [category |-> "external", priority |-> 0]
    /\ StoredUrls = { base_url \o <<"/", "a">> }
    /\ QueueUrls = { base_url \o <<"/", "a">> }


\* The run has ended with the summary printed.
RunEnded == pc = "done" /\ run_result = "ok"

\* C35 as stated: at the end of the run every url with a saved artifact has
\* a record in the store.
C35_ArtifactsHaveRecords ==
    RunEnded => \A i \in 1..Len(artifacts) : artifacts[i].url \in StoredUrls

\* The run ended with no operation failed, the seed page and an accepted
\* candidate have artifacts, and neither has a record.
C35_SeedAndCandidateUnrecorded ==
    /\ RunEnded
    /\ ~io_failed
    /\ failed_phases = NoFailures
    /\ SavedFor(base_url, "phase1_foundation")
    /\ base_url \notin StoredUrls
    /\ \E i \in 1..Len(artifacts) :
          /\ artifacts[i].phase = "phase4_patterns"
          /\ artifacts[i].url \notin StoredUrls


(***************************************************************************)
(* Further claims about the analyzer (SpecAnalyze).                        *)
(***************************************************************************)
\* The urls of the list whose path holds two "-<number>" parts.
TwoNumberUrls == { u \in AnalyzedUrls : \E lot \in 0..99 : u = LotItem(lot, 5) }

\* C36 as stated: no url proposed by an analysis is a url of the list it was
\* given, lists with two-number paths included.
C36_CandidatesNotObserved ==
    \A k \in 1..Len(an_out) : SuggestedBy(k) \cap AnalyzedUrls = {}

\* The same for the lists that hold no url with two numbers.
C36_OneNumberPaths == TwoNumberUrls = {} => C36_CandidatesNotObserved

\* Three products of lots 1, 2 and 3 were analyzed and the item of lot 1,
\* which is in the list, is proposed.
C36_ObservedProposed ==
    /\ Len(an_out) >= 1
    /\ AnalyzedUrls = { LotItem(1, 5), LotItem(2, 5), LotItem(3, 5) }
    /\ an_urls[1] \in SuggestedBy(1)


\* C37 as stated: analyze_patterns depends only on the list it is given; a
\* second call with the same list returns what the first returned.
C37_SecondCallSame == Len(an_out) >= 2 => an_out[2] = an_out[1]

\* With no shape that has fewer than three examples in the list, the second
\* call returns what the first returned.
C37_ThreeExamplesOrNone ==
    (/\ Len(an_out) >= 2
     /\ Cardinality(CourseIds) \in {0, 3}
     /\ Cardinality(NodeIds) \in {0, 3}
     /\ Cardinality(LotIds) \in {0, 3}) => an_out[2] = an_out[1]

\* Two course urls were analyzed twice: nothing the first time, candidates
\* the second time.
C37_EarlierExamplesCount ==
    /\ Len(an_out) = 2
    /\ Len(an_urls) = 2
    /\ Cardinality(CourseIds) = 2
    /\ SuggestedBy(1) = {}
    /\ SuggestedBy(2) # {}


(***************************************************************************)
(* Claims about the lock of the store (SpecStoreFair).                     *)
(***************************************************************************)
\* The threads between taking the lock and leaving the with-block.
InsideLock == { t \in Threads : th[t].pc \in {"load", "open", "dump", "release"} }

\* C38: whatever add_url_to_mapsite and is_url_already_discovered calls the
\* threads make, and whatever read or write fails, at most one call is
\* inside the lock, the lock is free once every call has returned, and every
\* call that was begun returns.
C38_AllCallsReturn ==
    /\ [](/\ Cardinality(InsideLock) <= 1
          /\ \A t \in InsideLock : mapsite_lock = t
          /\ Quiescent => mapsite_lock = 0)
    /\ \A t \in Threads : (th[t].pc # "idle") ~> (th[t].pc = "idle")

\* An is_url_already_discovered call waits for the lock while the add that
\* holds it has had its write fail and is about to leave the with-block.
C38_Witness ==
    \E t \in Threads, t2 \in Threads :
        /\ th[t].op = "add" /\ th[t].pc = "release" /\ ~th[t].ret
        /\ mapsite_lock = t
        /\ ~mapsite_file.parseable
        /\ th[t2].op = "is_known" /\ th[t2].pc = "acquire"
====
